---- MODULE Spec2Model ----
(***************************************************************************)
(* A model of the discovery engine of instagram_cli_discovery.py           *)
(* (class CLIInstagramDiscovery): seed rounds over hashtag pages, the      *)
(* breadth-first expansion through similar accounts, the tier policy and   *)
(* the signal-driven shutdown flag.  The three remote endpoints (hashtag   *)
(* page, profile, similar accounts) answer nondeterministically.           *)
(***************************************************************************)
EXTENDS Integers, Sequences, FiniteSets, TLC

(* ------------------------------ bounds -------------------------------- *)
\* The service knows the accounts 1..NumIds, and --profiles is drawn from
\* 0..MaxTarget (Init); or it knows 1..DeepIds and --profiles is DeepTarget,
\* the least target that the near-target cutoff tells from the target itself,
\* with enough accounts for depth 3 (InitDeep).
NumIds == 3
MaxTarget == 2
DeepIds == 4
DeepTarget == 5
\* The termination check runs on a service with the accounts 1..FairIds.
FairIds == 2
\* --min-followers (50000 by default), scaled to the follower range below.
MIN_FOLLOWERS == 3
\* self.MAX_QUEUE_SIZE is 1000 in the source; scaled so that the cap is met.
MAX_QUEUE_SIZE == 2
\* Remote requests after the shutdown flag are counted up to MaxCounted.
MaxCounted == 2
\* The periodic auto-save comes every 50 results in the source (line 492);
\* scaled so that results reach a multiple of it.
AUTO_SAVE_EVERY == 2
\* The validator is applied to all strings of up to MaxShortLen characters.
MaxShortLen == 4
\* The recursive variant runs on a service with the accounts 1..RecIds, whose
\* similar-accounts answers have up to RecRespLen items; --layers is drawn
\* from 1..MaxLayersArg and --max-per-user from 1..MaxPerUserArg.
RecIds == 7
RecRespLen == 2
MaxLayersArg == 6
\* With --layers up to RecShallowLayers the service gives answers of up to
\* RecRespLen items, with more layers answers of one item.
RecShallowLayers == 3
MaxPerUserArg == 2
\* The iterative variant runs on a service with the accounts 1..IterIds, whose
\* hashtag pages and similar-accounts answers name up to IterRespLen accounts;
\* TARGET_PROFILES is 500 (line 49) and MAX_HASHTAG_PAGES 5 (line 53) in the
\* source, scaled so that the target is met and every page is fetched.
IterIds == 3
IterRespLen == 2
IterTarget == 3
IterHashtagPages == 2
\* The smart variant runs on a service with the accounts 1..SmartIds, whose
\* hashtag pages and similar-accounts answers name up to SmartRespLen accounts.
\* In the source TARGET_PROFILES is 500 (line 48), the page loop ends at 50
\* usernames (line 105) and at most 100 seeds are kept (line 112); scaled so
\* that each of the three limits is met.
SmartIds == 4
SmartRespLen == 2
SmartTarget == 2
SmartEnoughSeeds == 2
SmartSeedLimit == 2
\* total_api_calls and the requests sent are counted up to MaxCalls.
MaxCalls == 2
\* enrich_profiles_with_details is called with up to PoolUsers users, whose
\* usernames are missing or one of 1..PoolNames, and with max_workers in
\* 1..MaxWorkersArg (5 by default in the source).
PoolUsers == 3
PoolNames == 2
MaxWorkersArg == 2
\* The raw similar-accounts response has 0..MaxRespLen items.
MaxRespLen == 26

(* ------------------------- program constants -------------------------- *)
LOW_QUALITY_MAX_DEPTH == 1
HIGH_QUALITY_MAX_DEPTH == 3
SIMILAR_ACCOUNTS_PER_USER == 15
HIGH_QUALITY_SIMILAR_ACCOUNTS == 25
LOW_QUALITY_SIMILAR_ACCOUNTS == 8
INITIAL_HASHTAG_PAGES == 3
MAX_HASHTAG_PAGES == 15
\* pages fetched by one call of _expand_hashtag_seeds
EXPAND_PAGES == 5
\* the last round of the while loop of discover_profiles
MAX_ROUNDS == 3
\* every list of hashtag_families, and the default list, has four entries
NUM_RELATED == 4
\* progress_percent < 80
NEAR_TARGET_PERCENT == 80
\* IterativeInstagramDiscovery.__init__
ITER_MIN_FOLLOWERS == 50000
ITER_MAX_DISCOVERY_DEPTH == 4
ITER_SIMILAR_ACCOUNTS_PER_USER == 20
\* SmartInstagramDiscovery.__init__
SMART_MIN_FOLLOWERS == 50000
SMART_MAX_DISCOVERY_DEPTH == 5
SMART_SIMILAR_ACCOUNTS_PER_USER == 30
SMART_MAX_HASHTAG_PAGES == 3
\* the hashtags discover_500_profiles tries when the first one gives no seeds
NUM_ALTERNATE_HASHTAGS == 5
\* _smart_bfs_discovery: followers >= 10000 (priority 1, and more similar
\* accounts: min(50, ...)), followers >= 1000 (priority 2)
PRIORITY_ONE_FOLLOWERS == 10000
PRIORITY_TWO_FOLLOWERS == 1000
MAX_SIMILAR_COUNT == 50
\* user.get('username') of a user without username
NoUsername == 0
\* discovered_from="seed" of the profiles of layer 0
SeedParent == 0
\* len(username) > 30, len(username) < 3
MAX_USERNAME_LEN == 30
MIN_USERNAME_LEN == 3
\* instagram_recursive_discovery.py: self.max_layers and
\* self.max_recommended_per_user as __init__ sets them
DEFAULT_MAX_LAYERS == 5
DEFAULT_MAX_RECOMMENDED == 20

Max(a, b) == IF a > b THEN a ELSE b
Ids == 1..Max(NumIds, DeepIds)
\* follower counts a profile answer can carry
Followers == 1..MIN_FOLLOWERS
Min(a, b) == IF a < b THEN a ELSE b

\* 'parent' of a seed entry ('hashtag' in the source)
HashtagParent == 0
\* profile_data is None
NoProfile == -1
\* the hashtag given on the command line; related hashtags are 1, 2, ...
PrimaryHashtag == 0
\* pagination_token is None
NoToken == [topic |-> -1, page |-> 0]
\* current has not been assigned yet
NoEntry == [username |-> 0, depth |-> 0, parent |-> 0]
\* discovery_path is ""
NoPath == -1
\* no file has been written
NoFile == [state |-> "none", rows |-> <<>>]
\* open() or a write raised: the file is missing or incomplete
WriteFailed == [state |-> "failed", rows |-> <<>>]
\* discover_profiles has not returned (yet, or because an exception left it)
NotReturned == [returned |-> FALSE, profiles |-> <<>>]

\* discover_profiles has returned the list (line 195)
ReturnedList(profiles) == [returned |-> TRUE, profiles |-> profiles]

VARIABLES
    \* the accounts of the remote service
    accounts,
    \* the names among them that _is_valid_username rejects
    invalidNames,
    \* the hashtag given on the command line, as its characters
    primary_name,
    TARGET_PROFILES,
    discovered_usernames,
    high_follower_profiles,
    discovery_queue,
    hashtag_pagination_token,
    shutdown_requested,
    current_hashtag_pages_searched,
    \* locals of discover_profiles
    current_hashtag,
    expansion_round,
    alt,
    \* locals of _get_hashtag_seeds_initial / _expand_hashtag_seeds
    hashtag,
    seed_usernames,
    pagination_token,
    page,
    start_page,
    \* locals of _smart_bfs_discovery
    current,
    profile_data,
    expansion_count,
    offered,
    \* control: the statement the engine is at, and the way the run ended
    pc,
    exit,
    \* history
    enqCount,
    resolveCount,
    maxDeqSession,
    maxDeqRound,
    callsSinceShutdown,
    fallbackExhausted,
    \* history: the new candidates of the last similar-accounts list that the
    \* queue cap cut off
    dropped,
    \* history: time.sleep has been called since the last remote request (or no
    \* request has been made yet)
    sleptSinceCall,
    \* self.total_api_calls, counted up to MaxCalls; and, as history, the
    \* remote requests the session has sent, counted up to MaxCalls
    total_api_calls,
    requestsAttempted,
    \* history of the shutdown: entries dequeued and seed rounds begun after the
    \* flag was set, and the number of results recorded when it was set
    deqSinceShutdown,
    roundsSinceShutdown,
    foundAtShutdown,
    \* the files written: the latest emergency save, the final export; and the
    \* value discover_profiles has returned to main
    emergency_file,
    final_file,
    returned,
    \* the periodic auto-saves so far: the result count in the file name and
    \* the file
    auto_saves,
    \* the last call of _is_valid_username: its argument and its result
    candidate,
    valid,
    \* instagram_recursive_discovery.py: a record of the command line
    \* (max_layers, max_recommended_per_user, clean_usernames), the fields of
    \* InstagramRecursiveDiscovery (discovered_usernames, profiles_by_layer),
    \* the locals of discover_recursive (layer, current_layer_usernames,
    \* next_layer_usernames, user_index, username, similar_accounts), the
    \* statement the program is at (pc), the file of save_results (file) and
    \* the profile requests made for the user being expanded (resolvedForUser),
    \* the number of accounts the service has named so far (met) and the
    \* first account whose profile request gave no profile, with the user whose
    \* recommendation was followed (first_failed); and the length of the
    \* longest similar-accounts answer the service gives in this run (max_answer)
    rec,
    \* instagram_iterative_discovery.py: a record of the fields of
    \* IterativeInstagramDiscovery (discovered_usernames, high_follower_profiles,
    \* discovery_queue), the locals of _discover_hashtag_seeds (page, all_seeds),
    \* of _enrich_and_filter_profiles (users, qualified_profiles) and of
    \* _bfs_similar_discovery (current), and the statement the program is at (pc)
    iter,
    \* instagram_smart_discovery.py: a record of the fields of
    \* SmartInstagramDiscovery (discovered_usernames, high_follower_profiles,
    \* discovery_queue), the locals of discover_500_profiles (alt, seed_accounts),
    \* of _get_hashtag_seeds (page, seed_usernames) and of _smart_bfs_discovery
    \* (current, followers), and the statement the program is at (pc)
    smart,
    \* enrich_profiles_with_details of instagram_scraper_final_enhanced.py and
    \* instagram_scraper_ultimate.py: a record of the arguments (users as their
    \* usernames, max_workers), the file the function is taken from (scraper),
    \* the futures of the executor (state, outcome, result), the futures
    \* as_completed has yielded (yielded), enriched_profiles, and the statement
    \* the calling thread is at (pc)
    pool

progVars == <<TARGET_PROFILES, discovered_usernames, high_follower_profiles,
              discovery_queue, hashtag_pagination_token, shutdown_requested,
              current_hashtag_pages_searched>>
roundVars == <<current_hashtag, expansion_round, alt>>
pageVars == <<hashtag, seed_usernames, pagination_token, page, start_page>>
bfsVars == <<current, profile_data, expansion_count, offered>>
histVars == <<enqCount, resolveCount, maxDeqSession,
              maxDeqRound, callsSinceShutdown, fallbackExhausted, dropped>>
cancelVars == <<deqSinceShutdown, roundsSinceShutdown, foundAtShutdown>>
fileVars == <<emergency_file, final_file, returned, auto_saves>>
config == <<accounts, invalidNames, primary_name>>
validVars == <<candidate, valid>>
recVars == <<rec>>
variantVars == <<iter, smart, pool>>
rateVars == <<sleptSinceCall>>
callVars == <<total_api_calls, requestsAttempted>>
vars == <<config, rateVars, callVars, validVars, recVars, variantVars, progVars, roundVars, pageVars, bfsVars, pc, exit, histVars,
          cancelVars, fileVars>>

(* ------------------------------ helpers ------------------------------- *)
Usernames(q) == {q[i].username : i \in DOMAIN q}

\* Identifiers are opaque, so they are numbered in the order in which the
\* session first meets them: when k identifiers are known, the next unknown
\* identifier an answer carries is k + 1 (0 is an item without a username).
RECURSIVE FreshInOrder(_, _)
FreshInOrder(s, k) ==
    IF s = <<>> THEN TRUE
    ELSE IF Head(s) <= k THEN FreshInOrder(Tail(s), k)
    ELSE Head(s) = k + 1 /\ FreshInOrder(Tail(s), k + 1)

FreshSet(S, k) == \A x \in S : x > k => (k + 1)..x \subseteq S

\* _is_valid_username, as far as the engine depends on it: a name passes or not
ValidName(u) == u \notin invalidNames

\* _extract_usernames_from_posts: of the names the captions of a page carry,
\* those that _is_valid_username accepts
ExtractUsernames(names) == {u \in names : ValidName(u)}

\* list(set(xs)): the order of the list is arbitrary; with the numbering above
\* the identifiers that are new to the session come in ascending order, and
\* the place of a known identifier makes no difference to the seed loop
RECURSIVE SetToList(_)
SetToList(S) ==
    IF S = {} THEN <<>>
    ELSE LET x == CHOOSE y \in S : \A z \in S : y <= z
         IN  <<x>> \o SetToList(S \ {x})

\* the usernames of one hashtag page: identifiers the session has not met,
\* and possibly one that it may have met
PageUsernames ==
    {(a..b) \cup K : a \in accounts, b \in {0} \cup accounts, K \in {{}, {1}}}

\* self.total_api_calls += 1 (lines 304, 610, 643)
Counted == Min(MaxCalls, total_api_calls + 1)

\* requests.get has been called once more
Attempted == Min(MaxCalls, requestsAttempted + 1)

\* one more remote request, counted once the shutdown flag is up
Called ==
    IF shutdown_requested THEN Min(MaxCounted, callsSinceShutdown + 1)
    ELSE callsSinceShutdown

\* number of entries of q after position n that carry username u
Added(q, n, u) == Cardinality({i \in (n + 1)..Len(q) : q[i].username = u})

CountEnqueued(q) ==
    [u \in Ids |-> Min(2, enqCount[u] + Added(q, Len(discovery_queue), u))]


(* ----------------------------- tier policy ---------------------------- *)
\* faulty variant of MaxDepthFor: every profile gets the depth limit of the high tier
MaxDepthForAny(followers) == HIGH_QUALITY_MAX_DEPTH

\* max_depth_for_profile
MaxDepthFor(followers) ==
    IF followers >= MIN_FOLLOWERS THEN HIGH_QUALITY_MAX_DEPTH
    ELSE LOW_QUALITY_MAX_DEPTH

\* faulty variant of ExpansionCount: half the threshold by integer division
ExpansionCountFloorHalf(followers) ==
    IF followers >= MIN_FOLLOWERS THEN HIGH_QUALITY_SIMILAR_ACCOUNTS
    ELSE IF followers >= MIN_FOLLOWERS \div 2 THEN SIMILAR_ACCOUNTS_PER_USER
    ELSE LOW_QUALITY_SIMILAR_ACCOUNTS

\* faulty variant of ExpansionCount: the widths of the two lower tiers swapped
ExpansionCountSwapped(followers) ==
    IF followers >= MIN_FOLLOWERS THEN HIGH_QUALITY_SIMILAR_ACCOUNTS
    ELSE IF 2 * followers >= MIN_FOLLOWERS THEN LOW_QUALITY_SIMILAR_ACCOUNTS
    ELSE SIMILAR_ACCOUNTS_PER_USER

\* expansion_count; followers >= MIN_FOLLOWERS * 0.5 is 2 * followers >= MIN_FOLLOWERS
ExpansionCount(followers) ==
    IF followers >= MIN_FOLLOWERS THEN HIGH_QUALITY_SIMILAR_ACCOUNTS
    ELSE IF 2 * followers >= MIN_FOLLOWERS THEN SIMILAR_ACCOUNTS_PER_USER
    ELSE LOW_QUALITY_SIMILAR_ACCOUNTS

\* faulty variant of BelowNearTarget: the near-target cutoff is left out
NoNearTargetCutoff(found, target) == TRUE

\* progress_percent < 80, with progress_percent = (found / target) * 100
BelowNearTarget(found, target) == 100 * found < NEAR_TARGET_PERCENT * target

\* should_expand
ShouldExpand(depth, followers, queueLen, found, target) ==
    /\ depth < MaxDepthFor(followers)
    /\ queueLen < MAX_QUEUE_SIZE
    /\ BelowNearTarget(found, target)

\* faulty variant of TargetReached: the target has to be exceeded
TargetExceeded(found, target) == found > target

\* if len(self.high_follower_profiles) >= self.TARGET_PROFILES: break
TargetReached(found, target) == found >= target

(* ------------------------------- results ------------------------------ *)
\* faulty variant of Qualifies: half the threshold is enough
QualifiesHalf(followers) == 2 * followers >= MIN_FOLLOWERS

\* if profile_data.followers >= self.MIN_FOLLOWERS
Qualifies(followers) == followers >= MIN_FOLLOWERS

\* the ProfileData that _get_profile_details returns: discovery_path "" and
\* discovery_depth 0
NewProfile(username, followers) ==
    [username |-> username, followers |-> followers,
     discovery_path |-> NoPath, discovery_depth |-> 0]

\* faulty variant of MarkDiscovery: the fields are left as constructed
LeaveUnmarked(profile, depth) == profile

\* lines 484-485: discovery_path = f"depth_{depth}", discovery_depth = depth
MarkDiscovery(profile, depth) ==
    [profile EXCEPT !.discovery_path = depth, !.discovery_depth = depth]

\* sorted(..., key=lambda x: x.followers, reverse=True): a stable sort
RECURSIVE InsertByFollowers(_, _)
InsertByFollowers(p, s) ==
    IF s = <<>> THEN <<p>>
    ELSE IF Head(s).followers >= p.followers
         THEN <<Head(s)>> \o InsertByFollowers(p, Tail(s))
         ELSE <<p>> \o s

RECURSIVE SortedByFollowers(_)
SortedByFollowers(s) ==
    IF s = <<>> THEN <<>>
    ELSE InsertByFollowers(s[Len(s)], SortedByFollowers(SubSeq(s, 1, Len(s) - 1)))

\* the rows that export_to_csv writes for the profiles
CsvRows(profiles) ==
    LET sorted_profiles == SortedByFollowers(profiles) IN
    [i \in 1..Len(sorted_profiles) |->
        [rank |-> i,
         username |-> sorted_profiles[i].username,
         followers |-> sorted_profiles[i].followers,
         discovery_depth |-> sorted_profiles[i].discovery_depth]]

\* export_to_csv when no write fails: the file afterwards; without profiles
\* nothing is written
ExportToCsv(profiles, file) ==
    IF profiles = <<>> THEN file ELSE [state |-> "written", rows |-> CsvRows(profiles)]

\* faulty variant of AutoSaveDue: one result late
AutoSaveDueLate(count) == count % AUTO_SAVE_EVERY = 1

\* line 492: len(self.high_follower_profiles) % 50 == 0
AutoSaveDue(count) == count % AUTO_SAVE_EVERY = 0

\* lines 492-500: the auto-save files after a result has been appended; a
\* failing write is caught and reported
AutoSaved(saves, profiles) ==
    IF AutoSaveDue(Len(profiles))
    THEN {Append(saves, [count |-> Len(profiles), file |-> f]) :
             f \in {ExportToCsv(profiles, NoFile), WriteFailed}}
    ELSE {saves}

(* ------------------------------ frontier ------------------------------ *)
\* faulty variant of NotDiscovered: the membership test is left out
AlwaysNew(u, discovered) == TRUE

\* username not in self.discovered_usernames
NotDiscovered(u, discovered) == u \notin discovered

\* faulty variant of AppendEntry: deque.appendleft
AppendLeft(queue, entry) == <<entry>> \o queue

\* self.discovery_queue.append({...})
AppendEntry(queue, entry) == Append(queue, entry)

\* the seed loop of _smart_bfs_discovery: <<queue, discovered>> afterwards
RECURSIVE EnqueueSeeds(_, _, _)
EnqueueSeeds(seeds, queue, discovered) ==
    IF seeds = <<>> THEN <<queue, discovered>>
    ELSE LET u == Head(seeds) IN
         IF NotDiscovered(u, discovered)
         THEN EnqueueSeeds(Tail(seeds),
                  AppendEntry(queue, [username |-> u, depth |-> 0, parent |-> HashtagParent]),
                  discovered \cup {u})
         ELSE EnqueueSeeds(Tail(seeds), queue, discovered)

\* if len(self.discovery_queue) >= self.MAX_QUEUE_SIZE: break
QueueFull(queue) == Len(queue) >= MAX_QUEUE_SIZE

\* faulty variant of EnqueueSimilar: at the cap the rest of the list is marked as seen
RECURSIVE EnqueueSimilarMarkRest(_, _, _, _, _)
EnqueueSimilarMarkRest(similar, queue, discovered, depth, parent) ==
    IF similar = <<>> THEN <<queue, discovered>>
    ELSE LET u == Head(similar) IN
         IF NotDiscovered(u, discovered)
         THEN LET q2 == AppendEntry(queue, [username |-> u, depth |-> depth + 1, parent |-> parent])
                  d2 == discovered \cup {u}
              IN  IF QueueFull(q2)
                  THEN <<q2, d2 \cup {similar[i] : i \in DOMAIN similar}>>
                  ELSE EnqueueSimilarMarkRest(Tail(similar), q2, d2, depth, parent)
         ELSE EnqueueSimilarMarkRest(Tail(similar), queue, discovered, depth, parent)

\* the neighbor loop of _smart_bfs_discovery: <<queue, discovered>> afterwards
RECURSIVE EnqueueSimilar(_, _, _, _, _)
EnqueueSimilar(similar, queue, discovered, depth, parent) ==
    IF similar = <<>> THEN <<queue, discovered>>
    ELSE LET u == Head(similar) IN
         IF NotDiscovered(u, discovered)
         THEN LET q2 == AppendEntry(queue, [username |-> u, depth |-> depth + 1, parent |-> parent])
                  d2 == discovered \cup {u}
              IN  IF QueueFull(q2) THEN <<q2, d2>>
                  ELSE EnqueueSimilar(Tail(similar), q2, d2, depth, parent)
         ELSE EnqueueSimilar(Tail(similar), queue, discovered, depth, parent)

\* the neighbor loop of _smart_bfs_discovery: the part of the list after the
\* break of line 565 (empty if the loop ran to its end)
RECURSIVE CutOff(_, _, _)
CutOff(similar, queue, discovered) ==
    IF similar = <<>> THEN <<>>
    ELSE LET u == Head(similar) IN
         IF NotDiscovered(u, discovered)
         THEN LET q2 == AppendEntry(queue, [username |-> u, depth |-> 0, parent |-> 0]) IN
              IF QueueFull(q2) THEN Tail(similar)
              ELSE CutOff(Tail(similar), q2, discovered \cup {u})
         ELSE CutOff(Tail(similar), queue, discovered)

\* the candidates after the break that were new when the list arrived
Dropped(similar, queue, discovered) ==
    LET rest == CutOff(similar, queue, discovered)
        taken == SubSeq(similar, 1, Len(similar) - Len(rest))
    IN  {rest[i] : i \in DOMAIN rest} \ (discovered \cup {taken[i] : i \in DOMAIN taken})

(* -------------------------- remote responses -------------------------- *)
\* _search_hashtag_page: a 200 answer with usernames and maybe a next token,
\* a non-200 answer, a RequestException, or a body that makes the parsing raise
PageResponses ==
    {[kind |-> "ok", usernames |-> U, more |-> m] : U \in PageUsernames, m \in BOOLEAN}
    \cup {[kind |-> k, usernames |-> {}, more |-> FALSE] : k \in {"status", "timeout", "malformed"}}

\* the token the server hands out for the page after the one requested
NextToken(resp, topic, token) ==
    IF resp.more THEN [topic |-> topic, page |-> token.page + 1] ELSE NoToken

\* the body of a 200 answer of get_ig_similar_accounts.php: a list whose items
\* carry a username (an identifier) or none (0); a short list repeated to length n
RespLens == {0, 1, MaxRespLen}
Cyclic(base, n) == [i \in 1..n |-> base[((i - 1) % Len(base)) + 1]]
SimilarBodies ==
    {Cyclic(base, n) : base \in [1..2 -> accounts \cup {0}], n \in RespLens}

\* _get_similar_accounts on a 200 answer: data[:max_accounts], items with a username
GetSimilarAccounts(data, max_accounts) ==
    SelectSeq(SubSeq(data, 1, Min(Len(data), max_accounts)), LAMBDA x : x # 0)

\* faulty variant of StartPage: the page count of an expansion starts over
StartPageZero(searched) == 0

\* start_page = self.current_hashtag_pages_searched
StartPage(searched) == searched

\* _get_related_hashtags: the four fallbacks of a hashtag
RelatedHashtags(h) == [i \in 1..NUM_RELATED |-> NUM_RELATED * h + i]

(* ------------------------- _is_valid_username ------------------------- *)
\* a string is the sequence of its characters
LowerLetters == <<"a", "b", "c", "d", "e", "f", "g", "h", "i", "j", "k", "l", "m", "n", "o", "p", "q", "r", "s", "t", "u", "v", "w", "x", "y", "z">>
UpperLetters == <<"A", "B", "C", "D", "E", "F", "G", "H", "I", "J", "K", "L", "M", "N", "O", "P", "Q", "R", "S", "T", "U", "V", "W", "X", "Y", "Z">>
Digits == {"0", "1", "2", "3", "4", "5", "6", "7", "8", "9"}
NEWLINE == "\n"

Range(s) == {s[i] : i \in 1..Len(s)}

\* the characters of the class [a-zA-Z0-9_.]
ClassChars == Range(LowerLetters) \cup Range(UpperLetters) \cup Digits \cup {"_", "."}

\* one or more characters, all of them of the class
RegexFullMatch(s) == Len(s) >= 1 /\ \A i \in 1..Len(s) : s[i] \in ClassChars

\* re.match(r'^[a-zA-Z0-9_.]+$', s): one or more characters of the class up to
\* the end of the string, where $ also matches before a newline that ends it
RegexMatches(s) ==
    \/ RegexFullMatch(s)
    \/ Len(s) >= 2 /\ s[Len(s)] = NEWLINE /\ RegexFullMatch(SubSeq(s, 1, Len(s) - 1))

\* str.lower() on one character (the characters used here are ASCII)
LowerChar(c) ==
    IF \E i \in 1..Len(UpperLetters) : UpperLetters[i] = c
    THEN LowerLetters[CHOOSE i \in 1..Len(UpperLetters) : UpperLetters[i] = c]
    ELSE c

\* username.lower()
Lower(s) == [i \in 1..Len(s) |-> LowerChar(s[i])]

\* the set common_words of lines 411-433
common_words ==
    {
         <<"i", "n", "s", "t", "a", "g", "r", "a", "m">>,
         <<"p", "h", "o", "t", "o">>,
         <<"v", "i", "d", "e", "o">>,
         <<"i", "m", "a", "g", "e">>,
         <<"p", "i", "c", "t", "u", "r", "e">>,
         <<"p", "o", "s", "t">>,
         <<"s", "t", "o", "r", "y">>,
         <<"r", "e", "e", "l">>,
         <<"i", "g", "t", "v">>,
         <<"f", "o", "l", "l", "o", "w">>,
         <<"l", "i", "k", "e">>,
         <<"s", "h", "a", "r", "e">>,
         <<"t", "a", "g">>,
         <<"c", "o", "m", "m", "e", "n", "t">>,
         <<"d", "m">>,
         <<"l", "i", "v", "e">>,
         <<"s", "t", "o", "r", "i", "e", "s">>,
         <<"t", "h", "e">>,
         <<"a", "n", "d">>,
         <<"f", "o", "r">>,
         <<"w", "i", "t", "h">>,
         <<"t", "h", "i", "s">>,
         <<"t", "h", "a", "t">>,
         <<"h", "e", "r", "e">>,
         <<"t", "h", "e", "r", "e">>,
         <<"w", "h", "a", "t">>,
         <<"w", "h", "e", "n">>,
         <<"w", "h", "e", "r", "e">>,
         <<"h", "o", "w">>,
         <<"w", "h", "y">>,
         <<"w", "h", "o">>,
         <<"a", "l", "l">>,
         <<"a", "n", "y">>,
         <<"c", "a", "n">>,
         <<"n", "o", "w">>,
         <<"n", "e", "w">>,
         <<"g", "e", "t">>,
         <<"j", "o", "h", "n">>,
         <<"j", "a", "n", "e">>,
         <<"m", "i", "k", "e">>,
         <<"s", "a", "r", "a", "h">>,
         <<"d", "a", "v", "i", "d">>,
         <<"e", "m", "i", "l", "y">>,
         <<"c", "h", "r", "i", "s">>,
         <<"a", "l", "e", "x">>,
         <<"j", "e", "s", "s", "i", "c", "a">>,
         <<"m", "i", "c", "h", "a", "e", "l">>,
         <<"a", "s", "h", "l", "e", "y">>,
         <<"d", "a", "n", "i", "e", "l">>,
         <<"a", "m", "a", "n", "d", "a">>,
         <<"j", "a", "m", "e", "s">>,
         <<"l", "i", "s", "a">>,
         <<"r", "o", "b", "e", "r", "t">>,
         <<"j", "e", "n", "n", "i", "f", "e", "r">>,
         <<"w", "i", "l", "l", "i", "a", "m">>,
         <<"e", "l", "i", "z", "a", "b", "e", "t", "h">>,
         <<"r", "i", "c", "h", "a", "r", "d">>,
         <<"m", "a", "r", "i", "a">>,
         <<"t", "h", "o", "m", "a", "s">>,
         <<"s", "u", "s", "a", "n">>,
         <<"c", "h", "a", "r", "l", "e", "s">>,
         <<"n", "a", "n", "c", "y">>,
         <<"j", "a", "n", "u", "a", "r", "y">>,
         <<"f", "e", "b", "r", "u", "a", "r", "y">>,
         <<"m", "a", "r", "c", "h">>,
         <<"a", "p", "r", "i", "l">>,
         <<"m", "a", "y">>,
         <<"j", "u", "n", "e">>,
         <<"j", "u", "l", "y">>,
         <<"a", "u", "g", "u", "s", "t">>,
         <<"s", "e", "p", "t", "e", "m", "b", "e", "r">>,
         <<"o", "c", "t", "o", "b", "e", "r">>,
         <<"n", "o", "v", "e", "m", "b", "e", "r">>,
         <<"d", "e", "c", "e", "m", "b", "e", "r">>,
         <<"j", "a", "n">>,
         <<"f", "e", "b">>,
         <<"m", "a", "r">>,
         <<"a", "p", "r">>,
         <<"j", "u", "n">>,
         <<"j", "u", "l">>,
         <<"a", "u", "g">>,
         <<"s", "e", "p">>,
         <<"o", "c", "t">>,
         <<"n", "o", "v">>,
         <<"d", "e", "c">>,
         <<"m", "o", "n", "d", "a", "y">>,
         <<"t", "u", "e", "s", "d", "a", "y">>,
         <<"w", "e", "d", "n", "e", "s", "d", "a", "y">>,
         <<"t", "h", "u", "r", "s", "d", "a", "y">>,
         <<"f", "r", "i", "d", "a", "y">>,
         <<"s", "a", "t", "u", "r", "d", "a", "y">>,
         <<"s", "u", "n", "d", "a", "y">>,
         <<"c", "o", "n", "t", "e", "n", "t">>,
         <<"c", "r", "e", "a", "t", "o", "r">>,
         <<"u", "s", "e", "r">>,
         <<"a", "c", "c", "o", "u", "n", "t">>,
         <<"p", "r", "o", "f", "i", "l", "e">>,
         <<"p", "a", "g", "e">>,
         <<"f", "e", "e", "d">>,
         <<"e", "x", "p", "l", "o", "r", "e">>}

\* _is_valid_username, lines 400-442
IsValidUsername(username) ==
    IF username = <<>> THEN FALSE
    ELSE IF ~RegexMatches(username) THEN FALSE
    ELSE IF Len(username) > MAX_USERNAME_LEN \/ Len(username) < 1 THEN FALSE
    ELSE IF Lower(username) \in common_words THEN FALSE
    ELSE IF Len(username) < MIN_USERNAME_LEN THEN FALSE
    ELSE TRUE

\* the candidates handed to the validator: all strings of up to MaxShortLen
\* characters over CandidateChars, and strings around the maximum length
CandidateChars == {"m", "a", "y", "M", "_", " ", NEWLINE}
RECURSIVE StringsOfLen(_)
StringsOfLen(n) ==
    IF n = 0 THEN {<<>>}
    ELSE {Append(s, c) : s \in StringsOfLen(n - 1), c \in CandidateChars}
LongString(n, last) == [i \in 1..n |-> IF i = n THEN last ELSE "a"]
Candidates ==
    UNION {StringsOfLen(n) : n \in 0..MaxShortLen}
    \cup {LongString(n, c) : n \in (MAX_USERNAME_LEN - 1)..(MAX_USERNAME_LEN + 1),
                             c \in {"a", NEWLINE}}

(* ------------------------ _get_related_hashtags ------------------------ *)
\* hashtag_families (lines 200-209), in the order of the dictionary; the names
\* are sequences of characters
hashtag_families ==
    <<
     [key |-> <<"l", "u", "x", "u", "r", "y">>,
      related |-> <<<<"f", "a", "s", "h", "i", "o", "n">>,
                    <<"l", "i", "f", "e", "s", "t", "y", "l", "e">>,
                    <<"s", "t", "y", "l", "e">>,
                    <<"d", "e", "s", "i", "g", "n", "e", "r">>>>],
     [key |-> <<"f", "a", "s", "h", "i", "o", "n">>,
      related |-> <<<<"s", "t", "y", "l", "e">>,
                    <<"o", "o", "t", "d">>,
                    <<"o", "u", "t", "f", "i", "t">>,
                    <<"c", "l", "o", "t", "h", "i", "n", "g">>>>],
     [key |-> <<"b", "u", "s", "i", "n", "e", "s", "s">>,
      related |-> <<<<"e", "n", "t", "r", "e", "p", "r", "e", "n", "e", "u", "r">>,
                    <<"s", "t", "a", "r", "t", "u", "p">>,
                    <<"m", "a", "r", "k", "e", "t", "i", "n", "g">>,
                    <<"s", "u", "c", "c", "e", "s", "s">>>>],
     [key |-> <<"g", "a", "m", "i", "n", "g">>,
      related |-> <<<<"g", "a", "m", "e", "r">>,
                    <<"e", "s", "p", "o", "r", "t", "s">>,
                    <<"v", "i", "d", "e", "o", "g", "a", "m", "e", "s">>,
                    <<"s", "t", "r", "e", "a", "m", "i", "n", "g">>>>],
     [key |-> <<"f", "i", "t", "n", "e", "s", "s">>,
      related |-> <<<<"g", "y", "m">>,
                    <<"w", "o", "r", "k", "o", "u", "t">>,
                    <<"h", "e", "a", "l", "t", "h">>,
                    <<"b", "o", "d", "y", "b", "u", "i", "l", "d", "i", "n", "g">>>>],
     [key |-> <<"t", "r", "a", "v", "e", "l">>,
      related |-> <<<<"v", "a", "c", "a", "t", "i", "o", "n">>,
                    <<"a", "d", "v", "e", "n", "t", "u", "r", "e">>,
                    <<"e", "x", "p", "l", "o", "r", "e">>,
                    <<"w", "a", "n", "d", "e", "r", "l", "u", "s", "t">>>>],
     [key |-> <<"f", "o", "o", "d">>,
      related |-> <<<<"f", "o", "o", "d", "i", "e">>,
                    <<"c", "o", "o", "k", "i", "n", "g">>,
                    <<"r", "e", "c", "i", "p", "e">>,
                    <<"r", "e", "s", "t", "a", "u", "r", "a", "n", "t">>>>],
     [key |-> <<"t", "e", "c", "h">>,
      related |-> <<<<"t", "e", "c", "h", "n", "o", "l", "o", "g", "y">>,
                    <<"c", "o", "d", "i", "n", "g">>,
                    <<"p", "r", "o", "g", "r", "a", "m", "m", "i", "n", "g">>,
                    <<"s", "t", "a", "r", "t", "u", "p">>>>]
    >>

\* line 215: the list for a hashtag of no family
default_related ==
    <<<<"l", "i", "f", "e", "s", "t", "y", "l", "e">>,
      <<"s", "t", "y", "l", "e">>,
      <<"b", "u", "s", "i", "n", "e", "s", "s">>,
      <<"s", "u", "c", "c", "e", "s", "s">>>>

\* key in s: the characters of key occur in s, one after the other
Contains(key, s) ==
    \E i \in 0..(Len(s) - Len(key)) : SubSeq(s, i + 1, i + Len(key)) = key

\* faulty variant of GetRelatedHashtags: the last family whose key occurs is taken
GetRelatedHashtagsLast(name) ==
    LET hits == {i \in DOMAIN hashtag_families :
                    Contains(hashtag_families[i].key, Lower(name))}
    IN  IF hits = {} THEN default_related
        ELSE hashtag_families[CHOOSE i \in hits : \A j \in hits : j <= i].related

\* _get_related_hashtags (lines 211-215): the list of the first family whose
\* key occurs in hashtag.lower(), or the default list
GetRelatedHashtags(name) ==
    LET hits == {i \in DOMAIN hashtag_families :
                    Contains(hashtag_families[i].key, Lower(name))}
    IN  IF hits = {} THEN default_related
        ELSE hashtag_families[CHOOSE i \in hits : \A j \in hits : i <= j].related

\* the name of a hashtag of the model: 0 is the hashtag of the command line,
\* NUM_RELATED * h + i is the i-th related hashtag of h
RECURSIVE HashtagName(_, _)
HashtagName(h, primary) ==
    IF h = PrimaryHashtag THEN primary
    ELSE GetRelatedHashtags(HashtagName((h - 1) \div NUM_RELATED, primary))[((h - 1) % NUM_RELATED) + 1]

\* the hashtags given on the command line when the fallback order is examined
HashtagNames ==
    {<<"l", "u", "x", "u", "r", "y">>,
     <<"L", "U", "X", "U", "R", "Y">>,
     <<"f", "a", "s", "h", "i", "o", "n", "l", "u", "x", "u", "r", "y">>,
     <<"f", "a", "s", "h", "i", "o", "n">>,
     <<"f", "o", "o", "d", "t", "e", "c", "h">>,
     <<"c", "a", "r", "s">>}

\* a hashtag of no family, given on the command line in the other runs
PlainHashtagName == <<"c", "a", "r", "s">>

(* -------------------------------- Init -------------------------------- *)
\* the state after __init__, at the first test of the loop of discover_profiles
Constructed ==
    /\ discovered_usernames = {}
    /\ high_follower_profiles = <<>>
    /\ discovery_queue = <<>>
    /\ hashtag_pagination_token = NoToken
    /\ shutdown_requested = FALSE
    /\ current_hashtag_pages_searched = 0
    /\ current_hashtag = PrimaryHashtag
    /\ expansion_round = 1
    /\ alt = 0
    /\ hashtag = PrimaryHashtag
    /\ seed_usernames = {}
    /\ pagination_token = NoToken
    /\ page = 0
    /\ start_page = 0
    /\ current = NoEntry
    /\ profile_data = NoProfile
    /\ expansion_count = 0
    /\ offered = 0
    /\ pc = "round_check"
    /\ exit = "running"
    /\ enqCount = [u \in Ids |-> 0]
    /\ resolveCount = [u \in Ids |-> 0]
    /\ maxDeqSession = -1
    /\ maxDeqRound = -1
    /\ callsSinceShutdown = 0
    /\ fallbackExhausted = FALSE
    /\ dropped = {}
    /\ sleptSinceCall = TRUE
    /\ total_api_calls = 0
    /\ requestsAttempted = 0
    /\ deqSinceShutdown = 0
    /\ roundsSinceShutdown = 0
    /\ foundAtShutdown = 0
    /\ emergency_file = NoFile
    /\ final_file = NoFile
    /\ returned = NotReturned
    /\ auto_saves = <<>>
    /\ candidate = <<>>
    /\ valid = FALSE

\* save_results has not written a file
RecNoFile == [state |-> "none", layers |-> [i \in 0..DEFAULT_MAX_LAYERS |-> <<>>]]
\* open() or json.dump raised in save_results
RecWriteFailed == [state |-> "failed", layers |-> [i \in 0..DEFAULT_MAX_LAYERS |-> <<>>]]

\* main, lines 326-336: InstagramRecursiveDiscovery.__init__ initialises the
\* layers 0..5 with the max_layers of the constructor (lines 46-51), then
\* max_layers and max_recommended_per_user are overwritten (lines 327-328)
RecConstructed(layers, per_user, usernames, answer_len) ==
    [max_layers |-> layers,
     max_recommended_per_user |-> per_user,
     clean_usernames |-> usernames,
     discovered_usernames |-> {},
     profiles_by_layer |-> [i \in 0..DEFAULT_MAX_LAYERS |-> <<>>],
     layer |-> 0,
     current_layer_usernames |-> <<>>,
     next_layer_usernames |-> <<>>,
     user_index |-> 0,
     username |-> 0,
     similar_accounts |-> <<>>,
     pc |-> "seeds",
     file |-> RecNoFile,
     resolvedForUser |-> 0,
     met |-> 0,
     first_failed |-> [username |-> 0, from |-> 0],
     max_answer |-> answer_len]

\* the recursive variant is not run
RecIdle == rec = [pc |-> "idle"]

\* the other variants are not run
VariantsIdle ==
    /\ iter = [pc |-> "idle"]
    /\ smart = [pc |-> "idle"]
    /\ pool = [pc |-> "idle"]

Init ==
    /\ accounts = 1..NumIds
    /\ invalidNames = {}
    /\ primary_name = PlainHashtagName
    /\ TARGET_PROFILES \in 0..MaxTarget
    /\ Constructed
    /\ RecIdle
    /\ VariantsIdle

InitDeep ==
    /\ accounts = 1..DeepIds
    /\ invalidNames = {}
    /\ primary_name = PlainHashtagName
    /\ TARGET_PROFILES = DeepTarget
    /\ Constructed
    /\ RecIdle
    /\ VariantsIdle

InitFair ==
    /\ accounts = 1..FairIds
    /\ invalidNames = {}
    /\ primary_name = PlainHashtagName
    /\ TARGET_PROFILES \in 0..MaxTarget
    /\ Constructed
    /\ RecIdle
    /\ VariantsIdle

\* one of the names the service uses fails _is_valid_username
InitNames ==
    /\ accounts = 1..NumIds
    /\ invalidNames \in {{u} : u \in accounts}
    /\ primary_name = PlainHashtagName
    /\ TARGET_PROFILES \in 1..MaxTarget
    /\ Constructed
    /\ RecIdle
    /\ VariantsIdle

\* the hashtag of the command line is one of HashtagNames
InitFamilies ==
    /\ accounts = 1..FairIds
    /\ invalidNames = {}
    /\ primary_name \in HashtagNames
    /\ TARGET_PROFILES = 1
    /\ Constructed
    /\ RecIdle
    /\ VariantsIdle

\* the validator on its own: the engine stays as constructed
InitValid ==
    /\ accounts = 1..NumIds
    /\ invalidNames = {}
    /\ primary_name = PlainHashtagName
    /\ TARGET_PROFILES = 0
    /\ Constructed
    /\ RecIdle
    /\ VariantsIdle

\* main of instagram_recursive_discovery.py up to line 344, with --layers,
\* --max-per-user and the usernames of the command line
InitRec ==
    /\ accounts = {}
    /\ invalidNames = {}
    /\ primary_name = PlainHashtagName
    /\ TARGET_PROFILES = 0
    /\ Constructed
    /\ rec \in {RecConstructed(l, m, u, IF l <= RecShallowLayers THEN RecRespLen ELSE 1) :
                  l \in 1..MaxLayersArg, m \in 1..MaxPerUserArg,
                  u \in {<<1>>, <<1, 1>>, <<1, 2>>}}
    /\ VariantsIdle

(* ----------------------------- seed rounds ---------------------------- *)
\* the call site a seed function returns to: line 123 (round 1, the hashtag
\* itself), lines 136 and 148 (the loops over related hashtags), line 128
Site ==
    IF alt > 0 THEN "related" ELSE IF expansion_round = 1 THEN "primary" ELSE "expand"

\* entry of _get_hashtag_seeds_initial(h)
StartInitial(h) ==
    /\ hashtag' = h
    /\ seed_usernames' = {}
    /\ pagination_token' = NoToken
    /\ page' = 1
    /\ start_page' = 0
    /\ pc' = "initial_page"

\* the locals of a seed function that has returned
SeedLocalsDead ==
    /\ hashtag' = PrimaryHashtag
    /\ seed_usernames' = {}
    /\ pagination_token' = NoToken
    /\ page' = 0
    /\ start_page' = 0

\* the condition of the while loop of discover_profiles
RoundCondition ==
    /\ Len(high_follower_profiles) < TARGET_PROFILES
    /\ expansion_round <= MAX_ROUNDS
    /\ ~shutdown_requested

\* faulty variant of NoSeedAccounts: round 1 retries without counting the round
NoSeedAccountsRetry ==
    /\ pc' = "round_check"
    /\ exit' = exit
    /\ UNCHANGED expansion_round

\* faulty variant of NoSeedAccounts: the run ends in whatever round has no seeds
NoSeedAccountsBreak ==
    /\ pc' = "done"
    /\ exit' = "no_seeds"
    /\ UNCHANGED expansion_round

\* lines 153-159: no seed accounts; round 1 goes on to round 2, a later round ends the run
NoSeedAccounts ==
    IF expansion_round = 1
    THEN /\ expansion_round' = expansion_round + 1
         /\ pc' = "round_check"
         /\ exit' = exit
    ELSE /\ pc' = "done"
         /\ exit' = "no_seeds"
         /\ UNCHANGED expansion_round

\* _smart_bfs_discovery, lines 447-463: the seeds of the round enter the queue
EnterBfs(seed_accounts) ==
    LET r == EnqueueSeeds(seed_accounts, discovery_queue, discovered_usernames) IN
      /\ discovery_queue' = r[1]
      /\ discovered_usernames' = r[2]
      /\ enqCount' = CountEnqueued(r[1])
      /\ maxDeqRound' = -1
      /\ pc' = "bfs_loop"

\* discover_profiles, lines 123-167: a seed function has returned
\* list(set(seed_usernames)), having searched 'searched' pages of its hashtag
SeedsReturned(usernames, searched) ==
    IF usernames # {}
    THEN /\ EnterBfs(SetToList(usernames))
         /\ current_hashtag' = IF Site = "related" THEN hashtag ELSE current_hashtag
         /\ alt' = 0
         /\ current_hashtag_pages_searched' = searched
         /\ SeedLocalsDead
         /\ UNCHANGED <<expansion_round, exit, fallbackExhausted>>
    ELSE IF Site = "primary" \/ (Site = "related" /\ alt < NUM_RELATED)
    THEN /\ alt' = alt + 1
         /\ current_hashtag_pages_searched' = 0
         /\ StartInitial(RelatedHashtags(current_hashtag)[alt + 1])
         /\ UNCHANGED <<current_hashtag, expansion_round, exit, fallbackExhausted,
                        discovery_queue, discovered_usernames, enqCount, maxDeqRound>>
    ELSE /\ alt' = 0
         /\ fallbackExhausted' = (fallbackExhausted \/ Site = "related")
         /\ current_hashtag_pages_searched' = searched
         /\ NoSeedAccounts
         /\ SeedLocalsDead
         /\ UNCHANGED <<current_hashtag, discovery_queue, discovered_usernames,
                        enqCount, maxDeqRound>>

\* discover_profiles, line 116: the test of the while loop
RoundCheck ==
    /\ pc = "round_check"
    /\ IF RoundCondition
       THEN pc' = "round_body" /\ exit' = exit
       ELSE pc' = "done" /\ exit' = "while_false"
    /\ UNCHANGED <<config, rateVars, callVars, validVars, recVars, variantVars, cancelVars, fileVars, progVars, roundVars, pageVars, bfsVars,
                   histVars>>

\* discover_profiles, lines 118-139: the round begins, the seed source is chosen
RoundBody ==
    /\ pc = "round_body"
    /\ IF expansion_round = 1
       THEN /\ StartInitial(current_hashtag)
            /\ UNCHANGED <<alt, current_hashtag_pages_searched, exit,
                           current_hashtag, expansion_round, fallbackExhausted,
                           discovery_queue, discovered_usernames, enqCount, maxDeqRound>>
       ELSE IF current_hashtag_pages_searched < MAX_HASHTAG_PAGES
       THEN IF hashtag_pagination_token = NoToken
            THEN \* _expand_hashtag_seeds returns [] at line 255
                 SeedsReturned({}, current_hashtag_pages_searched)
            ELSE \* _expand_hashtag_seeds, lines 249-264
                 /\ hashtag' = current_hashtag
                 /\ seed_usernames' = {}
                 /\ pagination_token' = hashtag_pagination_token
                 /\ start_page' = StartPage(current_hashtag_pages_searched)
                 /\ page' = 1
                 /\ pc' = "expand_page"
                 /\ UNCHANGED <<alt, current_hashtag_pages_searched, exit,
                                current_hashtag, expansion_round, fallbackExhausted,
                                discovery_queue, discovered_usernames, enqCount,
                                maxDeqRound>>
       ELSE /\ alt' = 1
            /\ current_hashtag_pages_searched' = 0
            /\ StartInitial(RelatedHashtags(current_hashtag)[1])
            /\ UNCHANGED <<exit, current_hashtag, expansion_round, fallbackExhausted,
                           discovery_queue, discovered_usernames, enqCount, maxDeqRound>>
    /\ roundsSinceShutdown' =
         IF shutdown_requested THEN roundsSinceShutdown + 1 ELSE roundsSinceShutdown
    /\ UNCHANGED <<config, rateVars, callVars, validVars, recVars, variantVars, dropped, deqSinceShutdown, foundAtShutdown, fileVars, TARGET_PROFILES,
                   high_follower_profiles, hashtag_pagination_token,
                   shutdown_requested, bfsVars, resolveCount, maxDeqSession,
                   callsSinceShutdown>>

\* an exception leaves the while loop through "except Exception" of discover_profiles
Raise ==
    /\ pc' = "done"
    /\ exit' = "error"

\* one turn of the page loop of _get_hashtag_seeds_initial, lines 225-244
InitialPage ==
    /\ pc = "initial_page"
    /\ \E resp \in PageResponses :
       \* line 304 follows requests.get: a request that raises is not counted
       /\ total_api_calls' = IF resp.kind = "timeout" THEN total_api_calls ELSE Counted
       /\ IF resp.kind = "malformed"
         THEN /\ Raise
              /\ sleptSinceCall' = FALSE
              /\ UNCHANGED <<pageVars, hashtag_pagination_token,
                             current_hashtag_pages_searched, roundVars, fallbackExhausted,
                             discovery_queue, discovered_usernames, enqCount, maxDeqRound>>
         ELSE LET next == NextToken(resp, hashtag, pagination_token)
                  usernames == seed_usernames \cup ExtractUsernames(resp.usernames)
              IN
              /\ FreshSet(seed_usernames \cup resp.usernames \cup invalidNames,
                          Cardinality(discovered_usernames))
              /\ hashtag_pagination_token' = next
              \* time.sleep(1) follows the request unless the loop breaks for want of a token
              /\ sleptSinceCall' = (next # NoToken)
              /\ IF next = NoToken \/ page = Min(INITIAL_HASHTAG_PAGES, MAX_HASHTAG_PAGES)
                 THEN SeedsReturned(usernames, page)
                 ELSE /\ seed_usernames' = usernames
                      /\ pagination_token' = next
                      /\ current_hashtag_pages_searched' = page
                      /\ page' = page + 1
                      /\ UNCHANGED <<pc, hashtag, start_page, exit, roundVars,
                                     fallbackExhausted, discovery_queue,
                                     discovered_usernames, enqCount, maxDeqRound>>
    /\ callsSinceShutdown' = Called
    /\ requestsAttempted' = Attempted
    /\ UNCHANGED <<config, validVars, recVars, variantVars, dropped, cancelVars, fileVars, TARGET_PROFILES, high_follower_profiles, shutdown_requested,
                   bfsVars, resolveCount, maxDeqSession>>

\* one turn of the page loop of _expand_hashtag_seeds, lines 266-289
ExpandPage ==
    /\ pc = "expand_page"
    /\ \E resp \in PageResponses :
       \* line 304 follows requests.get: a request that raises is not counted
       /\ total_api_calls' = IF resp.kind = "timeout" THEN total_api_calls ELSE Counted
       /\ IF resp.kind = "malformed"
         THEN /\ Raise
              /\ sleptSinceCall' = FALSE
              /\ UNCHANGED <<pageVars, hashtag_pagination_token,
                             current_hashtag_pages_searched, roundVars, fallbackExhausted,
                             discovery_queue, discovered_usernames, enqCount, maxDeqRound>>
         ELSE LET next == NextToken(resp, hashtag, pagination_token)
                  usernames == seed_usernames \cup ExtractUsernames(resp.usernames)
              IN
              /\ FreshSet(seed_usernames \cup resp.usernames \cup invalidNames,
                          Cardinality(discovered_usernames))
              /\ hashtag_pagination_token' = next
              \* time.sleep(1) follows the request unless the loop breaks for want of a token
              /\ sleptSinceCall' = (next # NoToken)
              /\ IF next = NoToken \/ page = Min(EXPAND_PAGES, MAX_HASHTAG_PAGES - start_page)
                 THEN SeedsReturned(usernames, start_page + page)
                 ELSE /\ seed_usernames' = usernames
                      /\ pagination_token' = next
                      /\ page' = page + 1
                      /\ UNCHANGED <<pc, hashtag, start_page, exit, roundVars,
                                     current_hashtag_pages_searched, fallbackExhausted,
                                     discovery_queue, discovered_usernames, enqCount,
                                     maxDeqRound>>
    /\ callsSinceShutdown' = Called
    /\ requestsAttempted' = Attempted
    /\ UNCHANGED <<config, validVars, recVars, variantVars, dropped, cancelVars, fileVars, TARGET_PROFILES, high_follower_profiles, shutdown_requested,
                   bfsVars, resolveCount, maxDeqSession>>

(* ------------------------- _smart_bfs_discovery ----------------------- *)
\* the condition of the while loop of _smart_bfs_discovery
BfsCondition ==
    /\ discovery_queue # <<>>
    /\ Len(high_follower_profiles) < TARGET_PROFILES
    /\ ~shutdown_requested

\* line 465: the test of the while loop
BfsLoop ==
    /\ pc = "bfs_loop"
    /\ pc' = IF BfsCondition THEN "popleft" ELSE "after_bfs"
    /\ UNCHANGED <<config, rateVars, callVars, validVars, recVars, variantVars, cancelVars, fileVars, progVars, roundVars, pageVars, bfsVars,
                   exit, histVars>>

\* faulty variant of PopLeft: pop() takes the entry from the right end
PopRight ==
    /\ pc = "popleft"
    /\ current' = discovery_queue[Len(discovery_queue)]
    /\ discovery_queue' = SubSeq(discovery_queue, 1, Len(discovery_queue) - 1)
    /\ maxDeqSession' = Max(maxDeqSession, discovery_queue[Len(discovery_queue)].depth)
    /\ maxDeqRound' = Max(maxDeqRound, discovery_queue[Len(discovery_queue)].depth)
    /\ deqSinceShutdown' =
         IF shutdown_requested THEN deqSinceShutdown + 1 ELSE deqSinceShutdown
    /\ pc' = "resolve"
    /\ UNCHANGED <<config, rateVars, callVars, validVars, recVars, variantVars, dropped, roundsSinceShutdown, foundAtShutdown, fileVars, TARGET_PROFILES,
                   discovered_usernames, high_follower_profiles,
                   hashtag_pagination_token, shutdown_requested,
                   current_hashtag_pages_searched, roundVars, pageVars,
                   profile_data, expansion_count, offered, exit,
                   enqCount, resolveCount, callsSinceShutdown, fallbackExhausted>>

\* lines 466-470: popleft()
PopLeft ==
    /\ pc = "popleft"
    /\ current' = Head(discovery_queue)
    /\ discovery_queue' = Tail(discovery_queue)
    /\ maxDeqSession' = Max(maxDeqSession, Head(discovery_queue).depth)
    /\ maxDeqRound' = Max(maxDeqRound, Head(discovery_queue).depth)
    /\ deqSinceShutdown' =
         IF shutdown_requested THEN deqSinceShutdown + 1 ELSE deqSinceShutdown
    /\ pc' = "resolve"
    /\ UNCHANGED <<config, rateVars, callVars, validVars, recVars, variantVars, dropped, roundsSinceShutdown, foundAtShutdown, fileVars, TARGET_PROFILES,
                   discovered_usernames, high_follower_profiles,
                   hashtag_pagination_token, shutdown_requested,
                   current_hashtag_pages_searched, roundVars, pageVars,
                   profile_data, expansion_count, offered, exit,
                   enqCount, resolveCount, callsSinceShutdown, fallbackExhausted>>

\* faulty variant of ResolveFailed: an unavailable profile is expanded all the same
ResolveFailedExpands ==
    /\ profile_data' = NoProfile
    /\ pc' = "similar"
    /\ expansion_count' = LOW_QUALITY_SIMILAR_ACCOUNTS
    /\ UNCHANGED <<high_follower_profiles, auto_saves, current>>

\* faulty variant of ResolveFailed: the failure path goes on without the delay
ResolveFailedNoDelay ==
    /\ profile_data' = NoProfile
    /\ pc' = "bfs_loop"
    /\ UNCHANGED <<high_follower_profiles, auto_saves, current, expansion_count>>

\* _get_profile_details answers None (non-200, no user_data, RequestException), or
\* the profile raises inside the try of the loop: the iteration ends at the sleep
ResolveFailed ==
    /\ profile_data' = NoProfile
    /\ pc' = "sleep"
    /\ UNCHANGED <<high_follower_profiles, auto_saves, current, expansion_count>>

\* lines 482-549: record a qualifying profile, stop at the target, decide on expansion
Process(followers) ==
    LET qualifies == Qualifies(followers)
        found == IF qualifies
                 THEN Append(high_follower_profiles,
                             MarkDiscovery(NewProfile(current.username, followers),
                                           current.depth))
                 ELSE high_follower_profiles
    IN /\ high_follower_profiles' = found
       /\ auto_saves' \in (IF qualifies THEN AutoSaved(auto_saves, found) ELSE {auto_saves})
       /\ IF qualifies /\ TargetReached(Len(found), TARGET_PROFILES)
          THEN /\ pc' = "after_bfs"
               /\ profile_data' = followers
               /\ UNCHANGED <<current, expansion_count>>
          ELSE IF ShouldExpand(current.depth, followers, Len(discovery_queue),
                               Len(found), TARGET_PROFILES)
          THEN /\ pc' = "similar"
               /\ profile_data' = followers
               /\ expansion_count' = ExpansionCount(followers)
               /\ UNCHANGED current
          ELSE /\ pc' = "sleep"
               /\ profile_data' = followers
               /\ UNCHANGED <<current, expansion_count>>

\* line 480 with lines 603-634: the profile request of the dequeued entry and,
\* on an answer, the rest of the iteration up to the next remote request
Resolve ==
    /\ pc = "resolve"
    /\ \/ /\ ResolveFailed
          \* line 610 follows requests.get: a request that raises is not counted
          /\ total_api_calls' \in {total_api_calls, Counted}
       \/ /\ \E f \in Followers : Process(f)
          /\ total_api_calls' = Counted
    /\ resolveCount' = [resolveCount EXCEPT ![current.username] = Min(2, @ + 1)]
    /\ sleptSinceCall' = FALSE
    /\ callsSinceShutdown' = Called
    /\ requestsAttempted' = Attempted
    /\ UNCHANGED <<config, validVars, recVars, variantVars, dropped, cancelVars, emergency_file, final_file, returned,
                   TARGET_PROFILES, discovered_usernames, discovery_queue,
                   hashtag_pagination_token, shutdown_requested,
                   current_hashtag_pages_searched, roundVars, pageVars,
                   offered, exit, enqCount, maxDeqSession, maxDeqRound,
                   fallbackExhausted>>

\* lines 551-565: the candidates enter the queue
Admit(similar_accounts) ==
    LET r == EnqueueSimilar(similar_accounts, discovery_queue, discovered_usernames,
                            current.depth, current.username) IN
      /\ discovery_queue' = r[1]
      /\ discovered_usernames' = r[2]
      /\ enqCount' = CountEnqueued(r[1])
      /\ offered' = Len(similar_accounts)
      /\ dropped' = Dropped(similar_accounts, discovery_queue, discovered_usernames)

\* line 549 with lines 636-655: the similar-accounts request, then the admission loop
Similar ==
    /\ pc = "similar"
    /\ \/ \E data \in SimilarBodies :
            /\ FreshInOrder(data, Cardinality(discovered_usernames))
            /\ Admit(GetSimilarAccounts(data, expansion_count))
            /\ total_api_calls' = Counted
       \/ \* a non-200 answer or a RequestException gives []; any other exception
          \* is caught at line 570; line 643 follows requests.get
          /\ Admit(<<>>)
          /\ total_api_calls' \in {total_api_calls, Counted}
    /\ pc' = "sleep"
    /\ sleptSinceCall' = FALSE
    /\ callsSinceShutdown' = Called
    /\ requestsAttempted' = Attempted
    /\ UNCHANGED <<config, validVars, recVars, variantVars, cancelVars, fileVars, TARGET_PROFILES, high_follower_profiles, hashtag_pagination_token,
                   shutdown_requested, current_hashtag_pages_searched, roundVars,
                   pageVars, current, profile_data, expansion_count, exit,
                   resolveCount, maxDeqSession, maxDeqRound,
                   fallbackExhausted>>

\* line 593: time.sleep(0.05); the locals of the iteration are dead after it
Sleep ==
    /\ pc = "sleep"
    /\ pc' = "bfs_loop"
    /\ sleptSinceCall' = TRUE
    /\ current' = NoEntry
    /\ profile_data' = NoProfile
    /\ expansion_count' = 0
    /\ offered' = 0
    /\ UNCHANGED <<config, callVars, validVars, recVars, variantVars, cancelVars, fileVars, progVars, roundVars, pageVars, exit, histVars>>

\* discover_profiles, lines 169-179: after the BFS of the round
AfterBfs ==
    /\ pc = "after_bfs"
    /\ IF shutdown_requested
       THEN pc' = "done" /\ exit' = "shutdown_break" /\ UNCHANGED expansion_round
       ELSE IF Len(high_follower_profiles) >= TARGET_PROFILES
       THEN pc' = "done" /\ exit' = "target_break" /\ UNCHANGED expansion_round
       ELSE pc' = "round_check" /\ expansion_round' = expansion_round + 1 /\ UNCHANGED exit
    /\ current' = NoEntry
    /\ profile_data' = NoProfile
    /\ expansion_count' = 0
    /\ offered' = 0
    /\ UNCHANGED <<config, rateVars, callVars, validVars, recVars, variantVars, cancelVars, fileVars, progVars, current_hashtag, alt, pageVars, histVars>>

(* --------------------------- _signal_handler -------------------------- *)
\* SIGINT or SIGTERM arrives between any two steps of the engine: the flag is
\* set and, if there are results, the emergency save is tried (lines 78-88)
Signal ==
    /\ pc \notin {"done", "returned", "exited"}
    /\ ~shutdown_requested
    /\ shutdown_requested' = TRUE
    /\ foundAtShutdown' = Len(high_follower_profiles)
    /\ emergency_file' \in
         IF high_follower_profiles = <<>> THEN {emergency_file}
         ELSE {ExportToCsv(high_follower_profiles, emergency_file), WriteFailed}
    /\ UNCHANGED <<config, rateVars, callVars, validVars, recVars, variantVars, deqSinceShutdown, roundsSinceShutdown, final_file, returned,
                   auto_saves,
                   TARGET_PROFILES, discovered_usernames, high_follower_profiles,
                   discovery_queue, hashtag_pagination_token,
                   current_hashtag_pages_searched, roundVars, pageVars, bfsVars,
                   pc, exit, histVars>>

(* ------------------------- the end of the run ------------------------- *)
\* discover_profiles, lines 181-195: after an unexpected error the emergency
\* save is tried if there are results; then the summary and the return. An
\* exception of the emergency save leaves discover_profiles and main.
Return ==
    /\ pc = "done"
    /\ IF exit = "error" /\ high_follower_profiles # <<>>
       THEN \/ /\ emergency_file' = ExportToCsv(high_follower_profiles, emergency_file)
               /\ returned' = ReturnedList(high_follower_profiles)
               /\ pc' = "returned"
            \/ /\ emergency_file' = WriteFailed
               /\ returned' = NotReturned
               /\ pc' = "exited"
       ELSE /\ returned' = ReturnedList(high_follower_profiles)
            /\ pc' = "returned"
            /\ UNCHANGED emergency_file
    /\ UNCHANGED <<config, rateVars, callVars, validVars, recVars, variantVars, cancelVars, final_file, auto_saves, progVars, roundVars, pageVars, bfsVars,
                   exit, histVars>>

\* main, line 758: discovery.export_to_csv(args.output); an exception ends
\* the program with a traceback
FinalExport ==
    /\ pc = "returned"
    /\ final_file' \in
         IF high_follower_profiles = <<>> THEN {final_file}
         ELSE {ExportToCsv(high_follower_profiles, final_file), WriteFailed}
    /\ pc' = "exited"
    /\ UNCHANGED <<config, rateVars, callVars, validVars, recVars, variantVars, cancelVars, emergency_file, returned, auto_saves, progVars, roundVars,
                   pageVars, bfsVars, exit, histVars>>

\* the steps of the while loop of discover_profiles (lines 116-179)
Session ==
    \/ RoundCheck
    \/ RoundBody
    \/ InitialPage
    \/ ExpandPage
    \/ BfsLoop
    \/ PopLeft
    \/ Resolve
    \/ Similar
    \/ Sleep
    \/ AfterBfs

Engine ==
    \/ Session
    \/ Return
    \/ FinalExport

Next == Engine \/ Signal

\* the call of _is_valid_username with some candidate (one call in a behaviour:
\* the function keeps no state between calls)
Validate ==
    /\ candidate = <<>>
    /\ \E s \in Candidates :
         /\ candidate' = s
         /\ valid' = IsValidUsername(s)
    /\ UNCHANGED <<config, rateVars, callVars, recVars, variantVars, cancelVars, fileVars, progVars, roundVars, pageVars,
                   bfsVars, pc, exit, histVars>>

Spec == Init /\ [][Next]_vars

\* the discovery loop of a session that no signal interrupts, with the deep
\* configuration
SpecDeep == InitDeep /\ [][Session]_vars

\* the discovery loop of a session that no signal interrupts, with a name the
\* validator rejects
SpecNames == InitNames /\ [][Session]_vars

\* calls of the validator with the candidates
SpecValid == InitValid /\ [][Validate]_vars

\* the interpreter keeps running the engine's thread
FairSpec == InitFair /\ [][Next]_vars /\ WF_vars(Engine)


\* sessions for each hashtag of HashtagNames
SpecFamilies == InitFamilies /\ [][Session]_vars

(* ----------------- instagram_recursive_discovery.py ------------------- *)
\* the usernames of a list that are not in seen, each once, in order
RECURSIVE NewOnce(_, _)
NewOnce(s, seen) ==
    IF s = <<>> THEN <<>>
    ELSE IF Head(s) \in seen THEN NewOnce(Tail(s), seen)
    ELSE <<Head(s)>> \o NewOnce(Tail(s), seen \cup {Head(s)})

\* _get_similar_accounts: the usernames of a 200 answer that is a list (all of
\* its items), or [] for any other answer and for a RequestException
RecResponses == UNION {[1..n -> 1..RecIds] : n \in 0..RecRespLen}

\* the steps of the recursive variant leave the CLI engine and the validator alone
RecFrame ==
    UNCHANGED <<config, rateVars, callVars, validVars, variantVars, cancelVars, fileVars, progVars,
                roundVars, pageVars, bfsVars, pc, exit, histVars>>

\* discover_recursive, lines 64-84: layer 0 takes the seed usernames
RecSeeds ==
    /\ rec.pc = "seeds"
    /\ LET seeds == NewOnce(rec.clean_usernames, rec.discovered_usernames) IN
         rec' = [rec EXCEPT
                    !.profiles_by_layer[0] = @ \o [i \in 1..Len(seeds) |->
                        [username |-> seeds[i], discovery_layer |-> 0,
                         discovered_from |-> SeedParent]],
                    !.current_layer_usernames = seeds,
                    !.discovered_usernames = @ \cup Range(seeds),
                    !.met = Cardinality(Range(seeds)),
                    !.layer = 1,
                    !.pc = "layer"]
    /\ RecFrame

\* line 87: for layer in range(1, self.max_layers + 1)
RecLayer ==
    /\ rec.pc = "layer"
    /\ rec' = IF rec.layer <= rec.max_layers
              THEN [rec EXCEPT !.next_layer_usernames = <<>>,
                               !.user_index = 1,
                               !.pc = "user"]
              ELSE [rec EXCEPT !.pc = "summary"]
    /\ RecFrame

\* faulty variant of NoMoreProfiles: the loop goes on to the next layer
NoMoreProfilesNever(usernames) == FALSE

\* line 123: if not current_layer_usernames
NoMoreProfiles(usernames) == usernames = <<>>

\* lines 91-95: the next user of the layer and its similar accounts; or, after
\* the last user, lines 118-125: the end of the layer
RecUser ==
    /\ rec.pc = "user"
    /\ IF rec.user_index <= Len(rec.current_layer_usernames)
       THEN \E resp \in RecResponses :
              /\ Len(resp) <= rec.max_answer
              /\ FreshInOrder(resp, rec.met)
              /\ rec' = [rec EXCEPT
                            !.username = rec.current_layer_usernames[rec.user_index],
                            !.similar_accounts = resp,
                            !.met = Cardinality(1..rec.met \cup Range(resp)),
                            !.resolvedForUser = 0,
                            !.pc = "account"]
       ELSE rec' =
              IF rec.layer \notin DOMAIN rec.profiles_by_layer
              THEN \* line 120: self.profiles_by_layer[layer] raises KeyError
                   [rec EXCEPT !.current_layer_usernames = rec.next_layer_usernames,
                               !.pc = "crashed"]
              ELSE IF NoMoreProfiles(rec.next_layer_usernames)
              THEN [rec EXCEPT !.current_layer_usernames = rec.next_layer_usernames,
                               !.pc = "summary"]
              ELSE [rec EXCEPT !.current_layer_usernames = rec.next_layer_usernames,
                               !.layer = @ + 1,
                               !.pc = "layer"]
    /\ RecFrame

\* lines 97-116: one account of the answer; if it is new its profile is
\* requested and, on an answer, recorded in the layer
RecAccount ==
    /\ rec.pc = "account"
    /\ IF rec.similar_accounts = <<>>
       THEN rec' = [rec EXCEPT !.user_index = @ + 1, !.pc = "user"]
       ELSE LET account == Head(rec.similar_accounts) IN
            IF account \in rec.discovered_usernames
            THEN rec' = [rec EXCEPT !.similar_accounts = Tail(@)]
            ELSE \/ \* _get_profile_details returns None
                    rec' = [rec EXCEPT !.similar_accounts = Tail(@),
                                       !.resolvedForUser = @ + 1,
                                       !.first_failed =
                                           IF @.username = 0
                                           THEN [username |-> account, from |-> rec.username]
                                           ELSE @]
                 \/ rec' =
                      IF rec.layer \in DOMAIN rec.profiles_by_layer
                      THEN [rec EXCEPT
                               !.similar_accounts = Tail(@),
                               !.resolvedForUser = @ + 1,
                               !.profiles_by_layer[rec.layer] =
                                   Append(@, [username |-> account,
                                              discovery_layer |-> rec.layer,
                                              discovered_from |-> rec.username]),
                               !.next_layer_usernames = Append(@, account),
                               !.discovered_usernames = @ \cup {account}]
                      ELSE \* line 104: self.profiles_by_layer[layer] raises KeyError
                           [rec EXCEPT !.similar_accounts = Tail(@),
                                       !.resolvedForUser = @ + 1,
                                       !.pc = "crashed"]
    /\ RecFrame

\* line 128 with lines 221-250: _print_discovery_summary reads
\* self.profiles_by_layer[layer] for every layer in range(self.max_layers + 1);
\* then discover_recursive returns
RecSummary ==
    /\ rec.pc = "summary"
    /\ rec' = [rec EXCEPT !.pc = IF 0..rec.max_layers \subseteq DOMAIN rec.profiles_by_layer
                                 THEN "returned" ELSE "crashed"]
    /\ RecFrame

\* main, line 347, with save_results (lines 263-288); an exception of the
\* write ends the program in the handler of line 355
RecSave ==
    /\ rec.pc = "returned"
    /\ \/ rec' = [rec EXCEPT !.file = [state |-> "written", layers |-> rec.profiles_by_layer],
                             !.pc = "saved"]
       \/ rec' = [rec EXCEPT !.file = RecWriteFailed, !.pc = "crashed"]
    /\ RecFrame

RecNext ==
    \/ RecSeeds
    \/ RecLayer
    \/ RecUser
    \/ RecAccount
    \/ RecSummary
    \/ RecSave

\* a run of instagram_recursive_discovery.py
SpecRec == InitRec /\ [][RecNext]_vars

(* ----------------- instagram_iterative_discovery.py ------------------- *)
\* IterativeInstagramDiscovery.__init__ and the entry of discover_500_profiles
IterConstructed ==
    [discovered_usernames |-> {},
     high_follower_profiles |-> <<>>,
     discovery_queue |-> <<>>,
     page |-> 1,
     all_seeds |-> <<>>,
     users |-> <<>>,
     qualified_profiles |-> <<>>,
     current |-> [username |-> 0, depth |-> 0],
     pc |-> "search"]

\* a run of the iterative variant: the CLI engine and the recursive variant are idle
InitIter ==
    /\ accounts = {}
    /\ invalidNames = {}
    /\ primary_name = PlainHashtagName
    /\ TARGET_PROFILES = 0
    /\ Constructed
    /\ RecIdle
    /\ iter = IterConstructed
    /\ smart = [pc |-> "idle"]
    /\ pool = [pc |-> "idle"]

\* the steps of the iterative variant leave the other programs alone
IterFrame ==
    UNCHANGED <<config, rateVars, callVars, validVars, recVars, smart, pool, cancelVars, fileVars, progVars,
                roundVars, pageVars, bfsVars, pc, exit, histVars>>

\* _search_hashtag_page with _extract_users_from_posts: the users of the posts,
\* each username once; [] for a failed request
IterPageUsers ==
    {s \in UNION {[1..n -> 1..IterIds] : n \in 0..IterRespLen} :
        \A i, j \in 1..Len(s) : i # j => s[i] # s[j]}

\* _get_similar_accounts: the usernames of the first max_accounts items of a
\* list answer; [] for any other answer
IterSimilarAnswers ==
    {SubSeq(s, 1, IF Len(s) < ITER_SIMILAR_ACCOUNTS_PER_USER
                  THEN Len(s) ELSE ITER_SIMILAR_ACCOUNTS_PER_USER) :
        s \in UNION {[1..n -> 1..IterIds] : n \in 0..IterRespLen}}

\* _get_profile_details: None, or a ProfileData with the follower_count of the answer
IterNoProfile == [found |-> FALSE, followers |-> 0]
IterProfileAnswers ==
    {IterNoProfile} \cup
    {[found |-> TRUE, followers |-> f] : f \in {ITER_MIN_FOLLOWERS - 1, ITER_MIN_FOLLOWERS}}

\* discover_500_profiles, lines 72-80: the seeds enter the queue, each username once
IterEnterQueue(seeds) ==
    LET new == NewOnce(seeds, iter.discovered_usernames) IN
      [iter EXCEPT
          !.all_seeds = seeds,
          !.users = <<>>,
          !.qualified_profiles = <<>>,
          !.discovery_queue = @ \o [i \in 1..Len(new) |-> [username |-> new[i], depth |-> 0]],
          !.discovered_usernames = @ \cup Range(new),
          !.pc = "bfs"]

\* _discover_hashtag_seeds, lines 99-103: the request of one hashtag page; the
\* URL is the same for every page number (line 129)
IterSearch ==
    /\ iter.pc = "search"
    /\ \E page_profiles \in IterPageUsers :
         iter' = [iter EXCEPT !.users = page_profiles,
                              !.qualified_profiles = <<>>,
                              !.pc = "enrich"]
    /\ IterFrame

\* _enrich_and_filter_profiles, lines 280-293: the profile of the next user of
\* the page is requested and recorded if it has MIN_FOLLOWERS followers; after
\* the last user, lines 108-117 of _discover_hashtag_seeds
IterEnrich ==
    /\ iter.pc = "enrich"
    /\ IF iter.users # <<>>
       THEN \E answer \in IterProfileAnswers :
              iter' =
                IF answer.found /\ answer.followers >= ITER_MIN_FOLLOWERS
                THEN [iter EXCEPT
                        !.users = Tail(@),
                        !.high_follower_profiles =
                            Append(@, [username |-> Head(iter.users), discovery_depth |-> 0]),
                        !.qualified_profiles = Append(@, Head(iter.users))]
                ELSE [iter EXCEPT !.users = Tail(@)]
       ELSE LET seeds == iter.all_seeds \o iter.qualified_profiles IN
            iter' =
              IF Len(iter.high_follower_profiles) >= IterTarget
                 \/ iter.page = IterHashtagPages
              THEN IterEnterQueue(seeds)
              ELSE [iter EXCEPT !.all_seeds = seeds,
                                !.qualified_profiles = <<>>,
                                !.page = @ + 1,
                                !.pc = "search"]
    /\ IterFrame

\* _bfs_similar_discovery, lines 221-249 and 273: the next entry leaves the
\* queue and its profile is requested; a qualifying profile is recorded
IterPop ==
    /\ iter.pc = "bfs"
    /\ IF iter.discovery_queue # <<>> /\ Len(iter.high_follower_profiles) < IterTarget
       THEN LET cur == Head(iter.discovery_queue) IN
            \E answer \in IterProfileAnswers :
              iter' =
                IF ~answer.found
                THEN [iter EXCEPT !.discovery_queue = Tail(@), !.current = cur]
                ELSE LET found == IF answer.followers >= ITER_MIN_FOLLOWERS
                                  THEN Append(iter.high_follower_profiles,
                                              [username |-> cur.username,
                                               discovery_depth |-> cur.depth])
                                  ELSE iter.high_follower_profiles
                     IN [iter EXCEPT
                           !.discovery_queue = Tail(@),
                           !.current = cur,
                           !.high_follower_profiles = found,
                           !.pc = IF answer.followers >= ITER_MIN_FOLLOWERS
                                     /\ Len(found) >= IterTarget
                                  THEN "summary"
                                  ELSE IF cur.depth < ITER_MAX_DISCOVERY_DEPTH
                                  THEN "similar" ELSE "bfs"]
       ELSE iter' = [iter EXCEPT !.pc = "summary"]
    /\ IterFrame

\* _bfs_similar_discovery, lines 251-273: the similar accounts of the profile;
\* those not discovered before enter the queue one level deeper
IterSimilar ==
    /\ iter.pc = "similar"
    /\ \E similar_accounts \in IterSimilarAnswers :
         LET new == NewOnce(similar_accounts, iter.discovered_usernames) IN
           iter' = [iter EXCEPT
                      !.discovery_queue = @ \o [i \in 1..Len(new) |->
                          [username |-> new[i], depth |-> iter.current.depth + 1]],
                      !.discovered_usernames = @ \cup Range(new),
                      !.pc = "bfs"]
    /\ IterFrame

\* discover_500_profiles, lines 88-92: the summary is printed and
\* high_follower_profiles is returned
IterSummary ==
    /\ iter.pc = "summary"
    /\ iter' = [iter EXCEPT !.pc = "returned"]
    /\ IterFrame

IterNext ==
    \/ IterSearch
    \/ IterEnrich
    \/ IterPop
    \/ IterSimilar
    \/ IterSummary

\* a run of instagram_iterative_discovery.py
SpecIter == InitIter /\ [][IterNext]_vars

(* ------------------- instagram_smart_discovery.py --------------------- *)
\* SmartInstagramDiscovery.__init__ and the entry of discover_500_profiles
SmartConstructed ==
    [discovered_usernames |-> {},
     high_follower_profiles |-> <<>>,
     discovery_queue |-> <<>>,
     alt |-> 0,
     page |-> 1,
     seed_usernames |-> <<>>,
     seed_accounts |-> <<>>,
     current |-> [username |-> 0, depth |-> 0, parent |-> 0, priority |-> 0],
     followers |-> 0,
     pc |-> "search"]

\* a run of the smart variant: the other programs are idle
InitSmart ==
    /\ accounts = {}
    /\ invalidNames = {}
    /\ primary_name = PlainHashtagName
    /\ TARGET_PROFILES = 0
    /\ Constructed
    /\ RecIdle
    /\ iter = [pc |-> "idle"]
    /\ smart = SmartConstructed
    /\ pool = [pc |-> "idle"]

\* the steps of the smart variant leave the other programs alone
SmartFrame ==
    UNCHANGED <<config, rateVars, callVars, validVars, recVars, iter, pool, cancelVars, fileVars, progVars,
                roundVars, pageVars, bfsVars, pc, exit, histVars>>

\* _search_hashtag_page with _extract_usernames_from_posts: the usernames of
\* the captions as a set; empty for a failed request
SmartPageUsernames == {S \in SUBSET (1..SmartIds) : Cardinality(S) <= SmartRespLen}

\* list(set(seed_usernames))[:100]: the distinct usernames in the order the
\* set yields them, which the language leaves open, cut to the limit
SmartUniqueSeeds(names) ==
    LET S == Range(names)
        n == IF Cardinality(S) < SmartSeedLimit THEN Cardinality(S) ELSE SmartSeedLimit
    IN {s \in [1..n -> S] : \A i, j \in 1..n : i # j => s[i] # s[j]}

\* similar_count of lines 272-274
SimilarCount(followers) ==
    IF followers >= PRIORITY_ONE_FOLLOWERS
    THEN (IF MAX_SIMILAR_COUNT < SMART_SIMILAR_ACCOUNTS_PER_USER * 2
          THEN MAX_SIMILAR_COUNT ELSE SMART_SIMILAR_ACCOUNTS_PER_USER * 2)
    ELSE SMART_SIMILAR_ACCOUNTS_PER_USER

\* _get_similar_accounts: the usernames of the first max_accounts items of a
\* list answer; [] for any other answer
SmartSimilarAnswers(max_accounts) ==
    {SubSeq(s, 1, IF Len(s) < max_accounts THEN Len(s) ELSE max_accounts) :
        s \in UNION {[1..n -> 1..SmartIds] : n \in 0..SmartRespLen}}

\* _get_profile_details: None, or a ProfileData with the follower_count of the answer
SmartNoProfile == [found |-> FALSE, followers |-> 0]
SmartProfileAnswers ==
    {SmartNoProfile} \cup
    {[found |-> TRUE, followers |-> f] :
        f \in {PRIORITY_TWO_FOLLOWERS - 1, PRIORITY_TWO_FOLLOWERS,
               PRIORITY_ONE_FOLLOWERS, SMART_MIN_FOLLOWERS}}

\* line 283: the priority of the similar accounts of a profile
Priority(followers) ==
    IF followers >= PRIORITY_ONE_FOLLOWERS THEN 1
    ELSE IF followers >= PRIORITY_TWO_FOLLOWERS THEN 2 ELSE 3

\* faulty variant of InsertPos: a new entry goes to the front of the queue
InsertPosFront(queue, priority) == 0

\* lines 286-291: the index of the first queued entry with a higher priority
\* number, or the length of the queue
InsertPos(queue, priority) ==
    LET later == {i \in 1..Len(queue) : queue[i].priority > priority} IN
      IF later = {} THEN Len(queue)
      ELSE (CHOOSE i \in later : \A j \in later : i <= j) - 1

\* deque.insert(insert_pos, item)
InsertAt(queue, insert_pos, item) ==
    SubSeq(queue, 1, insert_pos) \o <<item>> \o SubSeq(queue, insert_pos + 1, Len(queue))

\* lines 279-300: the loop over the similar accounts; st is the queue and the
\* set of discovered usernames
RECURSIVE EnqueueByPriority(_, _, _)
EnqueueByPriority(st, similar_accounts, parent) ==
    IF similar_accounts = <<>> THEN st
    ELSE LET similar_username == Head(similar_accounts)
             priority == Priority(parent.followers)
         IN IF similar_username \in st.discovered
            THEN EnqueueByPriority(st, Tail(similar_accounts), parent)
            ELSE EnqueueByPriority(
                   [queue |-> InsertAt(st.queue, InsertPos(st.queue, priority),
                                       [username |-> similar_username,
                                        depth |-> parent.depth + 1,
                                        parent |-> parent.username,
                                        priority |-> priority]),
                    discovered |-> st.discovered \cup {similar_username}],
                   Tail(similar_accounts), parent)

\* _get_hashtag_seeds, lines 97-108: one page of the hashtag; the URL is the
\* same for every page
SmartSearch ==
    /\ smart.pc = "search"
    /\ \E page_usernames \in SmartPageUsernames :
         LET names == smart.seed_usernames \o SetToList(page_usernames) IN
           smart' = IF Len(names) >= SmartEnoughSeeds \/ smart.page = SMART_MAX_HASHTAG_PAGES
                    THEN [smart EXCEPT !.seed_usernames = names, !.pc = "seeds"]
                    ELSE [smart EXCEPT !.seed_usernames = names, !.page = @ + 1]
    /\ SmartFrame

\* _get_hashtag_seeds, lines 111-112, and discover_500_profiles, lines 70-78:
\* without seeds the next alternate hashtag is tried; lines 220-229 of
\* _smart_bfs_discovery: the seeds enter the queue with priority 0
SmartSeeds ==
    /\ smart.pc = "seeds"
    /\ \E unique_seeds \in SmartUniqueSeeds(smart.seed_usernames) :
         smart' =
           IF unique_seeds = <<>> /\ smart.alt < NUM_ALTERNATE_HASHTAGS
           THEN [smart EXCEPT !.alt = @ + 1, !.page = 1, !.seed_usernames = <<>>,
                              !.pc = "search"]
           ELSE LET new == NewOnce(unique_seeds, smart.discovered_usernames) IN
                [smart EXCEPT
                   !.seed_accounts = unique_seeds,
                   !.seed_usernames = <<>>,
                   !.discovery_queue = @ \o [i \in 1..Len(new) |->
                       [username |-> new[i], depth |-> 0, parent |-> 0, priority |-> 0]],
                   !.discovered_usernames = @ \cup Range(new),
                   !.pc = "bfs"]
    /\ SmartFrame

\* _smart_bfs_discovery, lines 236-265 and 303-318: the next entry leaves the
\* queue and its profile is requested; a qualifying profile is recorded
SmartPop ==
    /\ smart.pc = "bfs"
    /\ IF smart.discovery_queue # <<>> /\ Len(smart.high_follower_profiles) < SmartTarget
       THEN LET cur == Head(smart.discovery_queue) IN
            \E answer \in SmartProfileAnswers :
              smart' =
                IF ~answer.found
                THEN [smart EXCEPT !.discovery_queue = Tail(@), !.current = cur]
                ELSE LET found == IF answer.followers >= SMART_MIN_FOLLOWERS
                                  THEN Append(smart.high_follower_profiles,
                                              [username |-> cur.username,
                                               discovery_depth |-> cur.depth])
                                  ELSE smart.high_follower_profiles
                     IN [smart EXCEPT
                           !.discovery_queue = Tail(@),
                           !.current = cur,
                           !.followers = answer.followers,
                           !.high_follower_profiles = found,
                           !.pc = IF answer.followers >= SMART_MIN_FOLLOWERS
                                     /\ Len(found) >= SmartTarget
                                  THEN "summary"
                                  ELSE IF cur.depth < SMART_MAX_DISCOVERY_DEPTH
                                  THEN "similar" ELSE "bfs"]
       ELSE smart' = [smart EXCEPT !.pc = "summary"]
    /\ SmartFrame

\* _smart_bfs_discovery, lines 270-300: the similar accounts of the profile;
\* those not discovered before are inserted into the queue by priority
SmartSimilar ==
    /\ smart.pc = "similar"
    /\ \E similar_accounts \in SmartSimilarAnswers(SimilarCount(smart.followers)) :
         LET st == EnqueueByPriority(
                     [queue |-> smart.discovery_queue,
                      discovered |-> smart.discovered_usernames],
                     similar_accounts,
                     [username |-> smart.current.username,
                      depth |-> smart.current.depth,
                      followers |-> smart.followers])
         IN smart' = [smart EXCEPT !.discovery_queue = st.queue,
                                   !.discovered_usernames = st.discovered,
                                   !.pc = "bfs"]
    /\ SmartFrame

\* discover_500_profiles, lines 88-90: the summary is printed and
\* high_follower_profiles is returned
SmartSummary ==
    /\ smart.pc = "summary"
    /\ smart' = [smart EXCEPT !.pc = "returned"]
    /\ SmartFrame

SmartNext ==
    \/ SmartSearch
    \/ SmartSeeds
    \/ SmartPop
    \/ SmartSimilar
    \/ SmartSummary

\* a run of instagram_smart_discovery.py
SpecSmart == InitSmart /\ [][SmartNext]_vars

(* --- instagram_scraper_final_enhanced.py, instagram_scraper_ultimate.py --- *)
\* fetch_profile has not returned a record: it returned None, raised, or has not run
NoResult == [user |-> 0, username |-> NoUsername, followers |-> 0, data_source |-> "none"]

\* the entry of enrich_profiles_with_details(users, max_workers)
PoolConstructed(file, usernames, workers) ==
    [scraper |-> file,
     users |-> usernames,
     max_workers |-> workers,
     submitted |-> 0,
     state |-> [i \in 1..Len(usernames) |-> "new"],
     outcome |-> [i \in 1..Len(usernames) |-> "not_called"],
     result |-> [i \in 1..Len(usernames) |-> NoResult],
     yielded |-> {},
     enriched_profiles |-> <<>>,
     pc |-> "submit"]

\* a call of enrich_profiles_with_details of either scraper; the other programs are idle
InitPool ==
    /\ accounts = {}
    /\ invalidNames = {}
    /\ primary_name = PlainHashtagName
    /\ TARGET_PROFILES = 0
    /\ Constructed
    /\ RecIdle
    /\ iter = [pc |-> "idle"]
    /\ smart = [pc |-> "idle"]
    /\ pool \in {PoolConstructed(f, u, w) :
                    f \in {"final_enhanced", "ultimate"},
                    u \in UNION {[1..n -> {NoUsername} \cup 1..PoolNames] : n \in 0..PoolUsers},
                    w \in 1..MaxWorkersArg}

\* the steps of enrich_profiles_with_details leave the other programs alone
PoolFrame ==
    UNCHANGED <<config, rateVars, callVars, validVars, recVars, iter, smart, cancelVars,
                fileVars, progVars, roundVars, pageVars, bfsVars, pc, exit, histVars>>

\* get_profile_details: None (a non-200 answer, a RequestException; in
\* instagram_scraper_ultimate.py also an answer without user_data), the
\* profile of an answer with user_data, whose username is the one of the
\* answer, in instagram_scraper_final_enhanced.py the fallback profile of any
\* other dict, or an exception that is not a RequestException (user_data is
\* not a dict)
ProfileOutcomes(file, username) ==
    {[kind |-> "none", username |-> NoUsername, followers |-> 0],
     [kind |-> "raised", username |-> NoUsername, followers |-> 0]}
    \cup {[kind |-> "profile_api_success", username |-> u, followers |-> 1] :
             u \in {username, PoolNames + 1}}
    \cup (IF file = "final_enhanced"
          THEN {[kind |-> "profile_api_fallback", username |-> username, followers |-> f] :
                   f \in {0, 1}}
          ELSE {})

\* the data_source values that fetch_profile accepts (line 255 of
\* instagram_scraper_final_enhanced.py, line 289 of instagram_scraper_ultimate.py)
AcceptedSources(file) ==
    IF file = "final_enhanced"
    THEN {"profile_api_success", "profile_api_fallback"}
    ELSE {"profile_api_success"}

\* the data_source of a record without profile details
BasicSource(file) == IF file = "final_enhanced" THEN "hashtag_search_only" ELSE "basic_only"

\* fetch_profile after get_profile_details: {**user, **profile_details}, or
\* the user with zeroed profile data
FetchResult(file, i, username, answer) ==
    IF answer.kind \in AcceptedSources(file)
    THEN [user |-> i, username |-> answer.username, followers |-> answer.followers,
          data_source |-> answer.kind]
    ELSE [user |-> i, username |-> username, followers |-> 0,
          data_source |-> BasicSource(file)]

\* faulty variant of Kept: every result is appended
KeptAlways(result) == TRUE

\* "if result:" of the collecting loop
Kept(result) == result # NoResult

\* executor.submit(fetch_profile, user) for the next user
PoolSubmit ==
    /\ pool.pc = "submit"
    /\ pool' = IF pool.submitted < Len(pool.users)
               THEN [pool EXCEPT !.submitted = @ + 1,
                                 !.state[pool.submitted + 1] = "pending"]
               ELSE [pool EXCEPT !.pc = "collect"]
    /\ PoolFrame

\* a worker thread takes the oldest pending task; at most max_workers run
PoolStart ==
    /\ pool.pc # "idle"
    /\ Cardinality({i \in DOMAIN pool.state : pool.state[i] = "running"}) < pool.max_workers
    /\ \E i \in DOMAIN pool.state :
         /\ pool.state[i] = "pending"
         /\ \A j \in 1..(i - 1) : pool.state[j] # "pending"
         /\ pool' = [pool EXCEPT !.state[i] = "running"]
    /\ PoolFrame

\* fetch_profile in a worker thread: None without a username, else the
\* profile request and the record built from its answer
PoolFetch ==
    /\ pool.pc # "idle"
    /\ \E i \in DOMAIN pool.state :
         /\ pool.state[i] = "running"
         /\ IF pool.users[i] = NoUsername
            THEN pool' = [pool EXCEPT !.state[i] = "done"]
            ELSE \E answer \in ProfileOutcomes(pool.scraper, pool.users[i]) :
                   pool' = IF answer.kind = "raised"
                           THEN [pool EXCEPT !.state[i] = "raised",
                                             !.outcome[i] = answer.kind]
                           ELSE [pool EXCEPT
                                   !.state[i] = "done",
                                   !.outcome[i] = answer.kind,
                                   !.result[i] = FetchResult(pool.scraper, i,
                                                             pool.users[i], answer)]
    /\ PoolFrame

\* one turn of "for future in as_completed(future_to_user)": a finished future
\* that has not been yielded; future.result() raises what fetch_profile raised
PoolCollect ==
    /\ pool.pc = "collect"
    /\ \E i \in DOMAIN pool.state \ pool.yielded :
         /\ pool.state[i] \in {"done", "raised"}
         /\ pool' = IF pool.state[i] = "raised"
                    THEN [pool EXCEPT !.yielded = @ \cup {i}, !.pc = "raising"]
                    ELSE IF Kept(pool.result[i])
                    THEN [pool EXCEPT !.yielded = @ \cup {i},
                                      !.enriched_profiles = Append(@, pool.result[i])]
                    ELSE [pool EXCEPT !.yielded = @ \cup {i}]
    /\ PoolFrame

\* the end of the with block: the executor waits for its tasks; then the
\* function returns enriched_profiles, or the exception of future.result()
\* leaves it
PoolReturn ==
    /\ \/ pool.pc = "collect" /\ pool.yielded = DOMAIN pool.state
       \/ pool.pc = "raising"
    /\ \A i \in DOMAIN pool.state : pool.state[i] \in {"done", "raised"}
    /\ pool' = [pool EXCEPT !.pc = IF pool.pc = "collect" THEN "returned" ELSE "raised"]
    /\ PoolFrame

PoolNext ==
    \/ PoolSubmit
    \/ PoolStart
    \/ PoolFetch
    \/ PoolCollect
    \/ PoolReturn

\* a call of enrich_profiles_with_details
SpecPool == InitPool /\ [][PoolNext]_vars
(* ------------------------------ properties ---------------------------- *)
\* number of queue entries ever created for the identifiers of S
RECURSIVE EntriesCreated(_)
EntriesCreated(S) ==
    IF S = {} THEN 0
    ELSE LET u == CHOOSE x \in S : TRUE IN enqCount[u] + EntriesCreated(S \ {u})

\* C1: over the seed rounds and neighbor expansions of a session no identifier
\* is appended to discovery_queue more than once, so none is dequeued and
\* resolved more than once; discovered_usernames never shrinks, and it has at
\* least as many members as queue entries were ever created.
C1_Dedup ==
    /\ [](\A u \in Ids : enqCount[u] <= 1 /\ resolveCount[u] <= 1)
    /\ [](Cardinality(discovered_usernames) >= EntriesCreated(Ids))
    /\ [][discovered_usernames \subseteq discovered_usernames']_vars

\* a neighbor answer offered candidates and none entered the queue: all of them
\* had been discovered before (the queue was empty, so the cap did not cut in)
C1_Witness ==
    /\ pc = "sleep"
    /\ offered >= 1
    /\ discovery_queue = <<>>
    /\ resolveCount[current.username] = 1
    /\ enqCount[current.username] = 1

\* C2: len(discovery_queue) <= MAX_QUEUE_SIZE in every reachable state, while
\* seeds are enqueued and while neighbors are enqueued.
C2_QueueWithinCap == Len(discovery_queue) <= MAX_QUEUE_SIZE

\* C3 (as stated): across the whole session an entry of smaller depth is
\* dequeued before every entry of greater depth, i.e. the depth of the entry
\* just dequeued is the greatest depth dequeued so far in the session.
C3_SessionOrder == pc = "resolve" => current.depth = maxDeqSession

\* C3 (amended): within one call of _smart_bfs_discovery (one seed round) an
\* entry of smaller depth is dequeued before every entry of greater depth: the
\* entry just dequeued has the greatest depth dequeued so far in the round, and
\* no entry waiting in the queue is shallower than it.
C3_RoundOrder ==
    /\ pc = "resolve" => current.depth = maxDeqRound
    /\ \A i \in DOMAIN discovery_queue : discovery_queue[i].depth >= maxDeqRound

\* a depth-1 entry is being processed in the second round, whose seeds had
\* depth 0 and came after the deeper entries of the first round
C3_Witness ==
    /\ expansion_round = 2
    /\ pc = "resolve"
    /\ current.depth = 1
    /\ maxDeqSession = 1

\* C4: with a target of at least 1, high_follower_profiles never has more than
\* TARGET_PROFILES entries, and from the iteration in which the count reaches
\* the target the engine is at the exit of the BFS loop or has ended: no
\* neighbor request for that node, no further dequeue, no further seed round.
C4_TargetStop ==
    TARGET_PROFILES >= 1 =>
        /\ Len(high_follower_profiles) <= TARGET_PROFILES
        /\ Len(high_follower_profiles) >= TARGET_PROFILES =>
              pc \in {"after_bfs", "done", "returned", "exited"}

\* the target was reached by a node that could have been expanded, with
\* entries still waiting and rounds still left
C4_Witness ==
    /\ pc = "after_bfs"
    /\ TARGET_PROFILES >= 1
    /\ Len(high_follower_profiles) = TARGET_PROFILES
    /\ discovery_queue # <<>>
    /\ Len(discovery_queue) < MAX_QUEUE_SIZE
    /\ current.depth < HIGH_QUALITY_MAX_DEPTH
    /\ profile_data >= MIN_FOLLOWERS
    /\ expansion_round < MAX_ROUNDS

\* C5: once shutdown_requested is set, at most one more remote request
\* (profile, similar accounts or hashtag page) is issued.
C5_OneMoreCall == callsSinceShutdown <= 1

\* C6: discover_profiles always terminates.
C6_Terminates == <>(pc = "done")

\* the run ended after its last round, short of a target that the accounts
\* it reached could not meet
C6_Witness ==
    /\ pc = "done"
    /\ exit = "while_false"
    /\ expansion_round > MAX_ROUNDS
    /\ Len(high_follower_profiles) < TARGET_PROFILES
    /\ discovered_usernames = accounts
    /\ ~shutdown_requested

C8_ExpandIff ==
    /\ [][(pc = "resolve" /\ profile_data' # NoProfile /\ pc' # "after_bfs") =>
            (pc' = "similar" <=>
                /\ current.depth < (IF profile_data' >= MIN_FOLLOWERS THEN 3 ELSE 1)
                /\ Len(discovery_queue) < MAX_QUEUE_SIZE
                /\ 100 * Len(high_follower_profiles') < 80 * TARGET_PROFILES)]_vars
    /\ [](pc = "similar" => 100 * Len(high_follower_profiles) < 80 * TARGET_PROFILES)

\* a qualifying profile within its depth limit, with room in the queue, is not
\* expanded because four of the five wanted profiles are found
C8_Witness ==
    /\ pc = "sleep"
    /\ profile_data >= MIN_FOLLOWERS
    /\ current.depth < HIGH_QUALITY_MAX_DEPTH
    /\ Len(discovery_queue) < MAX_QUEUE_SIZE
    /\ 100 * Len(high_follower_profiles) >= 80 * TARGET_PROFILES
    /\ Len(high_follower_profiles) < TARGET_PROFILES

\* C9: when the profile request of a dequeued identifier fails, nothing is
\* recorded for it, no similar-accounts request is made for it, the loop goes
\* on with the next entry, and the identifier is never enqueued or resolved
\* a second time.
C9_FailedResolve ==
    /\ [][(pc = "resolve" /\ pc' # "resolve" /\ profile_data' = NoProfile) =>
            /\ pc' = "sleep"
            /\ high_follower_profiles' = high_follower_profiles
            /\ discovery_queue' = discovery_queue
            /\ current.username \in discovered_usernames']_vars
    /\ [](\A u \in Ids : resolveCount[u] <= 1 /\ enqCount[u] <= 1)
    /\ [](pc = "similar" => profile_data # NoProfile)

\* the profile request of a seed has failed while other entries wait
C9_Witness ==
    /\ pc = "sleep"
    /\ profile_data = NoProfile
    /\ current.depth = 0
    /\ discovery_queue # <<>>
    /\ resolveCount[current.username] = 1

\* C10: an expanded profile with followers >= threshold has depth below 3 and
\* asks for 25 neighbors; with threshold/2 <= followers < threshold depth below
\* 1 and 15 neighbors; with followers < threshold/2 depth below 1 and 8
\* neighbors; no more candidates than that are offered to the queue.
C10_TierTable ==
    /\ pc = "similar" =>
         /\ profile_data >= MIN_FOLLOWERS =>
              current.depth < 3 /\ expansion_count = 25
         /\ (2 * profile_data >= MIN_FOLLOWERS /\ profile_data < MIN_FOLLOWERS) =>
              current.depth < 1 /\ expansion_count = 15
         /\ 2 * profile_data < MIN_FOLLOWERS =>
              current.depth < 1 /\ expansion_count = 8
    /\ offered <= expansion_count

\* an answer longer than the width of the high tier was cut to 25 candidates
C10_Witness ==
    /\ pc = "sleep"
    /\ profile_data >= MIN_FOLLOWERS
    /\ expansion_count = 25
    /\ offered = 25

\* C11: no profile request is ever issued for an identifier that
\* _is_valid_username rejects, whether it entered the queue as a seed or as a
\* neighbor.
C11_NoCallForInvalid == \A u \in Ids : resolveCount[u] > 0 => ValidName(u)

\* C12: the failure of a single remote request (non-200 status, network error
\* or timeout, malformed body) never ends the session: the loop of
\* discover_profiles is never left through its exception handler.
C12_FailureNeverEnds == exit # "error"


(* ------------------------------ C13 ----------------------------------- *)
\* C13: after shutdown_requested is set, at most one further queue entry is
\* dequeued, no new seed round is started, and the results recorded before the
\* flag was set are still in the list that discover_profiles returns.
C13_CancelStopsWork ==
    /\ deqSinceShutdown <= 1
    /\ roundsSinceShutdown = 0
    /\ (shutdown_requested /\ returned.returned) =>
           Len(returned.profiles) >= foundAtShutdown

(* ------------------------------ C14 ----------------------------------- *)
\* C14: whenever the signal handler can run, every element of
\* high_follower_profiles is fully constructed (followers at or above the
\* threshold, discovery_path and discovery_depth set to the depth of its
\* queue entry), and the emergency file that the handler wrote holds exactly
\* the results that had been accumulated when the signal arrived.
C14_ExportableResults ==
    /\ \A i \in 1..Len(high_follower_profiles) :
          /\ high_follower_profiles[i].followers >= MIN_FOLLOWERS
          /\ high_follower_profiles[i].discovery_path # NoPath
          /\ high_follower_profiles[i].discovery_depth =
                 high_follower_profiles[i].discovery_path
    /\ (shutdown_requested /\ emergency_file.state = "written" /\ exit # "error") =>
          /\ Len(emergency_file.rows) = foundAtShutdown
          /\ \A i \in 1..foundAtShutdown :
                \E j \in 1..Len(emergency_file.rows) :
                   /\ emergency_file.rows[j].username = high_follower_profiles[i].username
                   /\ emergency_file.rows[j].followers = high_follower_profiles[i].followers
                   /\ emergency_file.rows[j].discovery_depth =
                          high_follower_profiles[i].discovery_depth
          /\ \A j \in 1..Len(emergency_file.rows) :
                /\ emergency_file.rows[j].rank = j
                /\ emergency_file.rows[j].followers >= MIN_FOLLOWERS

\* the handler saved one result found at depth 1 or deeper, and the iteration
\* that was in flight added a second one afterwards
C14_Witness ==
    /\ shutdown_requested
    /\ emergency_file.state = "written"
    /\ foundAtShutdown = 1
    /\ high_follower_profiles[1].discovery_depth >= 1
    /\ Len(high_follower_profiles) = 2

(* ------------------------------ C15 ----------------------------------- *)
\* C15: a session that ends because a round after the first got no seeds has
\* tried the related hashtags, all of them without result, before it ended.
C15_FallbackBeforeEnd ==
    (pc = "done" /\ exit = "no_seeds" /\ expansion_round >= 2) => fallbackExhausted

(* ------------------------------ C16 ----------------------------------- *)
\* C16: in a round after the first, paging of the hashtag resumes where the
\* previous round stopped: every seed-page request of the round carries a
\* token, the first one the token stored last, which for the hashtag of the
\* round is the token that its last searched page returned; the page count
\* starts from the stored counter, and the counter afterwards is the old value
\* plus the pages requested in the round.
C16_ResumePaging ==
    /\ [](pc = "expand_page" =>
             /\ expansion_round >= 2
             /\ hashtag = current_hashtag
             /\ pagination_token # NoToken
             /\ start_page = current_hashtag_pages_searched
             /\ page = 1 => pagination_token = hashtag_pagination_token
             /\ pagination_token.topic = hashtag =>
                    pagination_token.page = start_page + page - 1)
    /\ [][(pc = "expand_page" /\ pc' # "expand_page" /\ exit' # "error") =>
             current_hashtag_pages_searched' = current_hashtag_pages_searched + page]_vars

\* round 3 resumes the hashtag after the pages of rounds 1 and 2
C16_Witness ==
    /\ pc = "expand_page"
    /\ page = 1
    /\ expansion_round = 3
    /\ pagination_token.topic = current_hashtag
    /\ start_page > INITIAL_HASHTAG_PAGES

(* ------------------------------ C17 ----------------------------------- *)
\* what the caller of the program gets: the list returned by discover_profiles
\* and the files written (the exit status is 0 on every path that returns)
C17_EmptyOutcome ==
    /\ returned = ReturnedList(<<>>)
    /\ final_file = NoFile
    /\ emergency_file = NoFile

\* C17: a session that ends because no hashtag yields a seed and the queue is
\* empty ends with an outcome that differs from the outcome of a cancelled
\* session: it is not the empty list without any file, which a cancelled
\* session produces (C17_CancelledSame).
C17_NoSeedsDistinct ==
    (pc = "exited" /\ exit = "no_seeds" /\ ~shutdown_requested /\
     discovered_usernames = {}) => ~C17_EmptyOutcome

\* a cancelled session ends with the empty list and without any file
C17_CancelledSame ==
    /\ pc = "exited"
    /\ shutdown_requested
    /\ exit # "no_seeds"
    /\ C17_EmptyOutcome

(* ------------------------------ C18 ----------------------------------- *)
\* C18: high_follower_profiles only grows, and only at its end: a step leaves
\* it as it is or appends one element, whose followers are at or above
\* MIN_FOLLOWERS and whose discovery_depth is the depth of the queue entry
\* that was resolved in that step.
C18_AppendOnly ==
    [][\/ high_follower_profiles' = high_follower_profiles
       \/ /\ pc = "resolve"
          /\ Len(high_follower_profiles') = Len(high_follower_profiles) + 1
          /\ SubSeq(high_follower_profiles', 1, Len(high_follower_profiles)) =
                 high_follower_profiles
          /\ LET added == high_follower_profiles'[Len(high_follower_profiles')] IN
               /\ added.followers >= MIN_FOLLOWERS
               /\ added.discovery_depth = current.depth]_vars

\* a seed and then one of its neighbors have been recorded
C18_Witness ==
    /\ Len(high_follower_profiles) = 2
    /\ high_follower_profiles[1].discovery_depth = 0
    /\ high_follower_profiles[2].discovery_depth = 1
    /\ discovery_queue # <<>>

(* ------------------------------ C19 ----------------------------------- *)
\* C19: a failing export write never aborts the run: when an emergency save
\* has failed, discover_profiles still returns the accumulated results and the
\* final export of main is still attempted.
C19_WriteFailureHarmless ==
    (pc = "exited" /\ emergency_file = WriteFailed) =>
        /\ returned = ReturnedList(high_follower_profiles)
        /\ final_file # NoFile

\* the emergency save of the signal handler failed and the run went on to
\* return its results and to write the final file
C19_HandlerSaveFailed ==
    /\ pc = "exited"
    /\ shutdown_requested
    /\ exit # "error"
    /\ emergency_file = WriteFailed
    /\ returned = ReturnedList(high_follower_profiles)
    /\ final_file.state = "written"

(* ------------------------------ C20 ----------------------------------- *)
\* C20: however the run ends, discover_profiles has returned all results
\* accumulated so far, and the final export of exactly these results has been
\* attempted (with no result there is nothing to write).
C20_ReturnsAndExports ==
    pc = "exited" =>
        /\ returned = ReturnedList(high_follower_profiles)
        /\ high_follower_profiles # <<>> => final_file # NoFile
        /\ final_file.state = "written" =>
               final_file.rows = CsvRows(high_follower_profiles)

\* after an unexpected error the emergency save succeeded, the results were
\* returned and the final file was written
C20_ErrorPathExports ==
    /\ pc = "exited"
    /\ exit = "error"
    /\ emergency_file.state = "written"
    /\ returned = ReturnedList(high_follower_profiles)
    /\ final_file.state = "written"

(* ------------------------------ C21 ----------------------------------- *)
\* C21: an iteration of the BFS loop leaves the loop only through the break at
\* the target; every other iteration, whatever its outcome, passes through the
\* delay of line 593 before the loop condition is tested again, so that only
\* the first test of a BFS call is not preceded by the delay.
C21_DelayEveryIteration ==
    [][/\ (pc \in {"resolve", "similar"} /\ pc' # pc) =>
             /\ pc' \in {"similar", "sleep", "after_bfs"}
             /\ pc' = "after_bfs" =>
                    Len(high_follower_profiles') >= TARGET_PROFILES
       /\ (pc' = "bfs_loop" /\ pc # "bfs_loop") =>
             (pc = "sleep" \/ maxDeqRound' = -1)]_vars

\* the delay is taken after an entry below the threshold, too deep to be
\* expanded, while other entries wait
C21_Witness ==
    /\ pc = "sleep"
    /\ profile_data # NoProfile
    /\ profile_data < MIN_FOLLOWERS
    /\ current.depth >= 1
    /\ offered = 0
    /\ discovery_queue # <<>>

(* ------------------------------ C22 ----------------------------------- *)
\* C22: at every moment of the session, the next dequeue included, an
\* auto-save has been attempted for exactly the result counts reached so far
\* that are positive multiples of AUTO_SAVE_EVERY, in that order, and a file
\* that was written holds all results recorded up to that count.
C22_AutoSaveEvery ==
    /\ Len(auto_saves) = Len(high_follower_profiles) \div AUTO_SAVE_EVERY
    /\ \A i \in 1..Len(auto_saves) :
          /\ auto_saves[i].count = i * AUTO_SAVE_EVERY
          /\ auto_saves[i].file # NoFile
          /\ auto_saves[i].file # WriteFailed =>
                auto_saves[i].file.rows =
                    CsvRows(SubSeq(high_follower_profiles, 1, auto_saves[i].count))

\* the next entry is about to be dequeued after the third result: the one
\* auto-save so far is the one of the second result
C22_Witness ==
    /\ pc = "popleft"
    /\ Len(high_follower_profiles) = AUTO_SAVE_EVERY + 1
    /\ Len(auto_saves) = 1
    /\ auto_saves[1].file.state = "written"

(* ------------------------------ C23 ----------------------------------- *)
\* C23: for the threshold of the session the tier policy is monotonic in the
\* follower count: of two counts the larger one never gets a smaller depth
\* limit nor a smaller expansion width; and these are the limit and the width
\* that the loop applies to the profile it expands.
C23_TierMonotonic ==
    /\ \A f1, f2 \in 0..(2 * MIN_FOLLOWERS) :
          f1 <= f2 =>
             /\ MaxDepthFor(f1) <= MaxDepthFor(f2)
             /\ ExpansionCount(f1) <= ExpansionCount(f2)
    /\ pc = "similar" =>
          /\ expansion_count = ExpansionCount(profile_data)
          /\ current.depth < MaxDepthFor(profile_data)

\* a profile of the middle tier is being expanded
C23_Witness ==
    /\ pc = "similar"
    /\ profile_data < MIN_FOLLOWERS
    /\ 2 * profile_data >= MIN_FOLLOWERS
    /\ expansion_count = SIMILAR_ACCOUNTS_PER_USER

(* ------------------------------ C24 ----------------------------------- *)
\* C24: _is_valid_username answers true if and only if the candidate has 3 to
\* 30 characters, all of them letters, digits, dots or underscores, and its
\* lower-cased form is not in the denylist (so it answers false for the empty
\* string).
C24_ValidIff ==
    valid = (/\ Len(candidate) >= MIN_USERNAME_LEN
             /\ Len(candidate) <= MAX_USERNAME_LEN
             /\ \A i \in 1..Len(candidate) : candidate[i] \in ClassChars
             /\ Lower(candidate) \notin common_words)

(* ------------------------------ C25 ----------------------------------- *)
\* C25: in the recursive variant no more than max_recommended_per_user
\* accounts of the user that is being expanded have their profile requested.
C25_PerUserCap ==
    rec.pc # "idle" => rec.resolvedForUser <= rec.max_recommended_per_user

(* ------------------------------ C26 ----------------------------------- *)
\* C26: in the recursive variant, for every max_layers >= 1, the run ends
\* without an exception other than a failed write of the results file.
C26_ReturnsAndSaves == rec.pc = "crashed" => rec.file = RecWriteFailed

\* the run of C26 that fails inside the layer loop: a profile of layer 6 is
\* about to be recorded
C26_CrashInLayerSix ==
    /\ rec.pc = "crashed"
    /\ rec.file = RecNoFile
    /\ rec.layer = DEFAULT_MAX_LAYERS + 1
    /\ rec.resolvedForUser > 0

(* ------------------------------ C27 ----------------------------------- *)
\* C27: a continuation token that is about to be sent to search_hashtag.php
\* with a hashtag was returned by a call for that same hashtag.
C27_TokenOfSameTopic ==
    (pc \in {"initial_page", "expand_page"} /\ pagination_token # NoToken)
        => pagination_token.topic = hashtag

(* ------------------------------ C28 ----------------------------------- *)
\* C28: a seed round after the first starts with an empty discovery_queue;
\* and in every call of _smart_bfs_discovery the queue is ordered by depth,
\* holds no entry shallower than one already dequeued in the call, and its
\* depths span at most two consecutive values.
C28_RoundStartsEmpty ==
    /\ (expansion_round > 1 /\ pc \in {"round_body", "initial_page", "expand_page"})
           => discovery_queue = <<>>
    /\ \A i, j \in DOMAIN discovery_queue :
           i < j => /\ discovery_queue[i].depth <= discovery_queue[j].depth
                    /\ discovery_queue[j].depth <= discovery_queue[i].depth + 1
    /\ \A i \in DOMAIN discovery_queue :
           /\ discovery_queue[i].depth >= maxDeqRound
           /\ discovery_queue[i].depth <= Max(maxDeqRound, 0) + 1

\* the second round is at its first seed, after a first round that went down
\* to depth 1 and emptied the queue
C28_Witness ==
    /\ expansion_round = 2
    /\ pc = "resolve"
    /\ current.depth = 0
    /\ maxDeqRound = 0
    /\ maxDeqSession = 1

(* ------------------------------ C29 ----------------------------------- *)
\* C29: no entry, queued or being processed, is deeper than
\* HIGH_QUALITY_MAX_DEPTH; the parent of every entry of depth 2 or more is a
\* profile that met the follower threshold (it is in high_follower_profiles);
\* and no similar-accounts request is made for an entry of depth
\* HIGH_QUALITY_MAX_DEPTH.
C29_DepthPolicy ==
    LET entries == {discovery_queue[i] : i \in DOMAIN discovery_queue} \cup {current}
        qualified == {high_follower_profiles[k].username : k \in DOMAIN high_follower_profiles}
    IN /\ \A e \in entries : e.depth <= HIGH_QUALITY_MAX_DEPTH
       /\ \A e \in entries : e.depth >= 2 => e.parent \in qualified
       /\ pc = "similar" => current.depth < HIGH_QUALITY_MAX_DEPTH

\* an entry of depth 3 has been resolved with enough followers and the
\* iteration goes to its delay without a similar-accounts request
C29_Witness ==
    /\ pc = "sleep"
    /\ current.depth = HIGH_QUALITY_MAX_DEPTH
    /\ profile_data >= MIN_FOLLOWERS
    /\ offered = 0

(* ------------------------------ C30 ----------------------------------- *)
\* C30: after a neighbor list has been admitted the iteration is at its delay
\* (no error), the queue holds at most MAX_QUEUE_SIZE entries, and the new
\* candidates that came after the entry that filled the queue are neither in
\* discovery_queue nor in discovered_usernames.
C30_DroppedStayUnseen ==
    (pc = "sleep" /\ offered > 0) =>
        /\ dropped \cap discovered_usernames = {}
        /\ dropped \cap Usernames(discovery_queue) = {}
        /\ Len(discovery_queue) <= MAX_QUEUE_SIZE
        /\ exit # "error"

\* an identifier that the cap cut off is in the queue: it came again, as a
\* seed of a later round, and was admitted
C30_Witness ==
    /\ dropped # {}
    /\ dropped \subseteq Usernames(discovery_queue)

(* ------------------------------ C31 ----------------------------------- *)
\* the family key and the list of the example: 'luxury' (line 201)
C31_Luxury == <<"l", "u", "x", "u", "r", "y">>
C31_LuxuryList ==
    <<<<"f", "a", "s", "h", "i", "o", "n">>,
      <<"l", "i", "f", "e", "s", "t", "y", "l", "e">>,
      <<"s", "t", "y", "l", "e">>,
      <<"d", "e", "s", "i", "g", "n", "e", "r">>>>

\* C31: the related hashtags are queried in the order of the list of
\* _get_related_hashtags for the hashtag of the session, one after the other;
\* the first one whose call returns a seed becomes current_hashtag and the BFS
\* starts without a query for the later ones; current_hashtag changes in no
\* other way; and every seed-page request is for the related hashtag that is
\* being tried or else for current_hashtag.
C31_FallbackOrder ==
    /\ [](pc \in {"initial_page", "expand_page"} =>
             hashtag = IF alt > 0 THEN RelatedHashtags(current_hashtag)[alt]
                       ELSE current_hashtag)
    /\ []((pc = "initial_page" /\ alt > 0 /\ Contains(C31_Luxury, Lower(primary_name))) =>
             HashtagName(hashtag, primary_name) = C31_LuxuryList[alt])
    /\ [][/\ (pc' = "initial_page" /\ alt' # alt) =>
                 /\ alt' = alt + 1
                 /\ current_hashtag' = current_hashtag
                 /\ seed_usernames' = {}
          /\ (alt > 0 /\ alt' = 0 /\ pc' = "bfs_loop") =>
                 /\ current_hashtag' = hashtag
                 /\ HashtagName(current_hashtag', primary_name) =
                        GetRelatedHashtags(HashtagName(current_hashtag, primary_name))[alt]
          /\ (alt > 0 /\ alt' = 0 /\ pc' # "bfs_loop") =>
                 /\ alt = NUM_RELATED
                 /\ current_hashtag' = current_hashtag
          /\ current_hashtag' # current_hashtag => (alt > 0 /\ pc' = "bfs_loop")
         ]_vars

\* the hashtag of the session contains 'luxury'; 'fashion' gave no seed,
\* 'lifestyle' did and is the current hashtag of the first BFS
C31_Witness ==
    /\ pc = "resolve"
    /\ expansion_round = 1
    /\ current_hashtag = RelatedHashtags(PrimaryHashtag)[2]
    /\ HashtagName(current_hashtag, primary_name) = C31_LuxuryList[2]

(* ------------------------------ C32 ----------------------------------- *)
\* C32: a remote request is made only after a delay (time.sleep) that
\* followed the request before it: wherever the next step of the engine is a
\* seed-page, profile or similar-accounts request, a delay has passed since
\* the last request.
C32_DelayBetweenCalls ==
    pc \in {"initial_page", "expand_page", "resolve", "similar"} => sleptSinceCall

(* ------------------------------- C33 ---------------------------------- *)
\* C33: in the iterative variant no account is recorded twice in
\* high_follower_profiles: any two entries of the list have different usernames.
C33_RecordedOnce ==
    iter.pc # "idle" =>
        \A i, j \in 1..Len(iter.high_follower_profiles) :
            i # j => iter.high_follower_profiles[i].username
                     # iter.high_follower_profiles[j].username

C35_FailedIsDeadEnd ==
    [][(rec.pc = "account" /\ rec'.resolvedForUser > rec.resolvedForUser) =>
          ~(/\ rec.first_failed.username = Head(rec.similar_accounts)
            /\ rec.first_failed.from # rec.username)]_vars

(* ------------------------------- C36 ---------------------------------- *)
\* C36: in the recursive variant (1) no account has two places in
\* profiles_by_layer, (2) every profile of a layer L >= 1 was discovered from
\* an account of layer L-1 and carries discovery_layer L, and (3) a layer that
\* ended without a new profile is the last one: every layer before the one
\* being processed has profiles and no later layer has any.
C36_Layers ==
    rec.pc # "idle" =>
      LET layers == rec.profiles_by_layer IN
      /\ \A l \in DOMAIN layers : \A i \in 1..Len(layers[l]) :
            /\ \A m \in DOMAIN layers : \A j \in 1..Len(layers[m]) :
                  (l # m \/ i # j) => layers[l][i].username # layers[m][j].username
            /\ layers[l][i].discovery_layer = l
            /\ l >= 1 => \E j \in 1..Len(layers[l - 1]) :
                            layers[l - 1][j].username = layers[l][i].discovered_from
      /\ \A l \in DOMAIN layers :
            /\ (1 <= l /\ l < rec.layer) => layers[l] # <<>>
            /\ l > rec.layer => layers[l] = <<>>

\* discovery has stopped at layer 2, which gave no new profile although a
\* recommended account was queried, with more layers allowed
C36_Witness ==
    /\ rec.pc = "returned"
    /\ rec.layer = 2
    /\ rec.max_layers > 2
    /\ rec.profiles_by_layer[1] # <<>>
    /\ rec.profiles_by_layer[2] = <<>>
    /\ rec.first_failed.username # 0

(* ------------------------------- C37 ---------------------------------- *)
\* C37: in the CLI engine total_api_calls equals the number of remote
\* requests the session has sent, failed requests included (both numbers are
\* exact below MaxCalls).
C37_CountsEveryRequest ==
    total_api_calls < MaxCalls => requestsAttempted = total_api_calls

====
